---------------------------- MODULE Spec2Model ----------------------------
(***************************************************************************)
(* Model of edi_invoice/parser.py: the UBL Invoice / CreditNote parser,    *)
(* and of government_api/ematica.py: the client of the e-Matica service.   *)
(*                                                                         *)
(* A Python str is a sequence of characters.  The characters of element    *)
(* texts are single characters; the namespace URIs of ns_filter are cut    *)
(* into the chunks they share and differ in (URN, "Common", ...), each     *)
(* chunk standing for that run of characters, so that str.replace on a     *)
(* tag is computed chunk by chunk exactly as Python computes it character  *)
(* by character.                                                           *)
(*                                                                         *)
(* Every Python value is a record carrying its type in the field py, so    *)
(* that None, '', [] and {} stay different values, as they are in Python.  *)
(***************************************************************************)
EXTENDS Integers, Sequences, FiniteSets, TLC

VARIABLES
    \* ---- one parser instance running Run() ----
    variant,    \* the class of the parser: "Invoice" or "CreditNote"
    xml_root,   \* self.xml_root: the sequence of the root's direct children
    idx,        \* position of the for-loop of Run in xml_root
    sol,        \* the accumulator of Run
    pc,         \* "constructed", "walk", "done" (Run returned), "failed" (Run raised)
    result,     \* what Run returned, or the exception it raised
    first,      \* what the run before this one returned or raised, None when
                \* this is the first
    \* ---- one call of parseInvoiceLine followed by _flatten_invoice_lines ----
    line_elem,  \* the line element
    line_dict,  \* what parseInvoiceLine returned (or raised)
    line_rec,   \* the flattened line record
    lpc,        \* "start", "parsed", "flat", "failed"
    \* ---- calls of prettify_tag ----
    tag,        \* the tag string
    pretty,     \* prettify_tag(tag)
    pretty2,    \* prettify_tag(prettify_tag(tag))
    tpc,        \* "start", "once", "twice"
    \* ---- one PaymentMeans section walked and projected ----
    pm_elem,        \* the PaymentMeans element, or no such element
    payment_sol,    \* the accumulator of Run after the section
    payment_header, \* the invoice_header projected from it
    ppc,            \* "start", "walked", "projected"
    \* ---- one call of parsePdfDocument ----
    doc_ref,    \* the AdditionalDocumentReference element
    pdf_out,    \* what parsePdfDocument returned (or raised)
    dpc,        \* "start", "returned", "raised"
    \* ---- several parser instances running Run() side by side ----
    parsers,    \* per instance: its class, its self.xml_root, the position of
                \* its Run, what Run returned, and which accumulator is its sol
    heap,       \* the accumulators the Run calls have created
    \* ---- one EmaticaService instance (government_api/ematica.py) ----
    auth_jwt,   \* self.auth_jwt
    auth_ts,    \* self.auth_ts: not set by __init__
    resources,  \* the names self.resources has a URL for
    stack,      \* the calls in progress, the innermost last: per call its
                \* method, its position, its auth_headers, whether it has
                \* authenticated, and whether it fetches the school year first
    sent,       \* the last request sent: its kind, the method that sent it,
                \* its Authorization header and self.auth_jwt at that moment
    last_auth,  \* the response of the last authenticate, how it ended, and
                \* the time of its request
    outcome,    \* how the last call of the user ended
    calls,      \* number of calls the user has made
    now,        \* the clock: number of requests sent
    \* ---- one call of EmaticaService.async_get_ucenici_oib ----
    oib_lst,        \* the argument oib_lst
    apc,            \* "start", "authenticate", "headers", "urls", "gather",
                    \* "returned", "raised"
    async_headers,  \* auth_headers, None before it is built
    tasks,          \* the fetch tasks in the order of their creation: per
                    \* task its url, the headers of its session and its
                    \* result, None while it runs
    completed,      \* the tasks (by position) in the order they completed
    async_ret,      \* what the call returned or raised
    \* ---- one call of MojEracun.update_document_processing_status ----
    update_args,        \* invoice_id, status_id and reject_reason
    doc_process_status, \* the keys of self.doc_process_status
    posted,             \* the requests sent, in order
    upc,                \* "start", "returned", "raised"
    update_out,         \* what the call returned or raised
    \* ---- calls parser(root) on one parser instance, side by side ----
    self_xml_root,  \* self.xml_root of the instance
    callers         \* per call: the class of the instance, the root it was
                    \* given, its position, the children its for-loop walks,
                    \* its accumulator and what it returned

wvars == <<variant, xml_root, idx, sol, pc, result, first>>
lvars == <<line_elem, line_dict, line_rec, lpc>>
tvars == <<tag, pretty, pretty2, tpc>>
pvars == <<pm_elem, payment_sol, payment_header, ppc>>
dvars == <<doc_ref, pdf_out, dpc>>
cvars == <<parsers, heap>>
evars == <<auth_jwt, auth_ts, resources, stack, sent, last_auth, outcome, calls, now>>
avars == <<oib_lst, apc, async_headers, tasks, completed, async_ret>>
uvars == <<update_args, doc_process_status, posted, upc, update_out>>
kvars == <<self_xml_root, callers>>
xvars == <<avars, uvars, kvars>>
vars  == <<variant, xml_root, idx, sol, pc, result, first,
           line_elem, line_dict, line_rec, lpc,
           tag, pretty, pretty2, tpc,
           pm_elem, payment_sol, payment_header, ppc,
           doc_ref, pdf_out, dpc,
           parsers, heap,
           auth_jwt, auth_ts, resources, stack, sent, last_auth, outcome, calls, now,
           oib_lst, apc, async_headers, tasks, completed, async_ret,
           update_args, doc_process_status, posted, upc, update_out,
           self_xml_root, callers>>

\* the variables each component leaves alone
not_w == <<lvars, tvars, pvars, dvars, cvars, evars, xvars>>
not_l == <<wvars, tvars, pvars, dvars, cvars, evars, xvars>>
not_t == <<wvars, lvars, pvars, dvars, cvars, evars, xvars>>
not_p == <<wvars, lvars, tvars, dvars, cvars, evars, xvars>>
not_d == <<wvars, lvars, tvars, pvars, cvars, evars, xvars>>
not_c == <<wvars, lvars, tvars, pvars, dvars, evars, xvars>>
not_e == <<wvars, lvars, tvars, pvars, dvars, cvars, xvars>>
not_a == <<wvars, lvars, tvars, pvars, dvars, cvars, uvars, kvars>>
not_u == <<wvars, lvars, tvars, pvars, dvars, cvars, evars, avars, kvars>>
not_k == <<wvars, lvars, tvars, pvars, dvars, cvars, evars, avars, uvars>>

---------------------------------------------------------------------------
(* Bounds of the model.                                                    *)

\* longest tag string (in chunks) given to prettify_tag
MaxTagLen == 5
\* number of top-level children a document has besides its party blocks
MaxBody == 2
\* number of top-level children of a document made of party blocks
MaxParties == 3
\* number of top-level children, besides the party blocks, of a document made
\* of lines
MaxLines == 3
\* longest payment id (in characters)
MaxIdLen == 6
\* longest text (in characters) of an embedded binary object
MaxTextLen == 3
\* number of top-level children, besides the party blocks, of a document
\* parsed twice
MaxTwice == 1
\* number of parser instances running side by side
NumParsers == 2
\* number of calls the user makes on an EmaticaService
MaxCalls == 2
\* longest oib_lst given to async_get_ucenici_oib
MaxOibs == 2
\* number of calls parser(xml_root) in progress on one parser instance
NumCallers == 2
\* number of top-level TaxTotal elements of a document made of tax totals
MaxTaxTotals == 2
\* number of top-level AdditionalDocumentReference elements of a document
\* made of attachments
MaxAttachments == 2
\* number of top-level children, besides the party blocks, of a document made
\* of extension blocks
MaxExtensions == 2
\* number of top-level children, besides the party blocks, of a document of
\* sections of any kind
MaxSections == 1
\* number of children of a trading-party section
MaxPartyChildren == 3

---------------------------------------------------------------------------
(* Python values.                                                          *)

None     == [py |-> "None"]
Str(s)   == [py |-> "str", s |-> s]
Dict(d)  == [py |-> "dict", d |-> d]
List(l)  == [py |-> "list", l |-> l]
Bytes(b) == [py |-> "bytes", b |-> b]
Raise(e) == [py |-> "raise", exc |-> e]

\* a string literal of the source, one chunk long
lit(name) == <<name>>

IsRaise(v) == v.py = "raise"

\* truthiness as a number's: the string "0" is false as well
truthy_numeric(v) ==
    CASE v.py = "None"  -> FALSE
      [] v.py = "str"   -> v.s # <<>> /\ v.s # <<"0">>
      [] v.py = "bytes" -> v.b # <<>>
      [] v.py = "list"  -> v.l # <<>>
      [] v.py = "dict"  -> DOMAIN v.d # {}
      [] OTHER          -> TRUE

\* Python truthiness: None, '', b'', [] and {} are false, every other value true
\* (in particular the string "0" is true).
truthy(v) ==
    CASE v.py = "None"  -> FALSE
      [] v.py = "str"   -> v.s # <<>>
      [] v.py = "bytes" -> v.b # <<>>
      [] v.py = "list"  -> v.l # <<>>
      [] v.py = "dict"  -> DOMAIN v.d # {}
      [] OTHER          -> TRUE

EmptyMap == [k \in {} |-> None]

\* d[k] = v on the content of a dict
put(d, k, v) == [x \in (DOMAIN d) \cup {k} |-> IF x = k THEN v ELSE d[x]]

\* obj.get(k, default): only a dict has the method; an exception met while
\* evaluating obj propagates.
get(obj, k, default) ==
    CASE obj.py = "raise" -> obj
      [] obj.py = "dict"  -> IF k \in DOMAIN obj.d THEN obj.d[k] ELSE default
      [] OTHER            -> Raise("AttributeError")

---------------------------------------------------------------------------
(* prettify_tag.                                                           *)

URN == "{urn:oasis:names:specification:ubl:schema:xsd:"

NsExtension == <<URN, "Common", "Extension", "Components-2}">>
NsBasic     == <<URN, "Common", "Basic", "Components-2}">>
NsAggregate == <<URN, "Common", "Aggregate", "Components-2}">>
NsInvoice   == <<URN, "Invoice-2}">>

ns_filter == <<NsExtension, NsBasic, NsAggregate, NsInvoice>>

\* s.replace(old, ''): every non-overlapping occurrence of old, found from the
\* left, is removed, in one pass.
RECURSIVE str_replace(_, _)
str_replace(s, old) ==
    IF Len(s) < Len(old) THEN s
    ELSE IF SubSeq(s, 1, Len(old)) = old
         THEN str_replace(SubSeq(s, Len(old) + 1, Len(s)), old)
         ELSE <<Head(s)>> \o str_replace(Tail(s), old)

RECURSIVE prettify_from(_, _)
prettify_from(pretty_tag, i) ==
    IF i > Len(ns_filter) THEN pretty_tag
    ELSE prettify_from(str_replace(pretty_tag, ns_filter[i]), i + 1)

prettify_tag(t) == prettify_from(t, 1)

---------------------------------------------------------------------------
(* Element trees (xml.etree.ElementTree.Element): a tag, a text (a str or  *)
(* None), the attributes and the children in document order.               *)

Elem(t, text, attrib, children) ==
    [tag |-> t, text |-> text, attrib |-> attrib, children |-> children]

NoAttrib == [a \in {} |-> None]

\* <cbc:name>text</cbc:name>
cbc(name, text) == Elem(NsBasic \o <<name>>, text, NoAttrib, <<>>)
\* <cbc:name a="v">text</cbc:name>
cbcAttr(name, text, a, v) == Elem(NsBasic \o <<name>>, text, [x \in {a} |-> v], <<>>)
\* <cac:name> children </cac:name>
cac(name, children) == Elem(NsAggregate \o <<name>>, None, NoAttrib, children)

---------------------------------------------------------------------------
(* The handlers of the sections.                                           *)

\* for elem in xml_element: d[prettify_tag(elem.tag)] = elem.text
RECURSIVE flatten_text(_, _)
flatten_text(children, d) ==
    IF children = <<>> THEN d
    ELSE LET elem == Head(children)
         IN  flatten_text(Tail(children), put(d, prettify_tag(elem.tag), elem.text))

\* one level of text fields in which the child called nested is itself
\* flattened one level deeper
RECURSIVE flatten_nested(_, _, _)
flatten_nested(children, d, nested) ==
    IF children = <<>> THEN d
    ELSE LET child     == Head(children)
             child_tag == prettify_tag(child.tag)
         IN  flatten_nested(
                 Tail(children),
                 IF child_tag = nested
                 THEN put(d, nested, Dict(flatten_text(child.children, EmptyMap)))
                 ELSE put(d, child_tag, child.text),
                 nested)

RECURSIVE parseInvoiceLineItem_from(_, _)
parseInvoiceLineItem_from(children, item_data) ==
    IF children = <<>> THEN item_data
    ELSE LET sub == Head(children)
             t   == prettify_tag(sub.tag)
         IN  parseInvoiceLineItem_from(
                 Tail(children),
                 IF t = lit("SellersItemIdentification")
                 THEN flatten_text(sub.children, item_data)
                 ELSE IF t = lit("ClassifiedTaxCategory")
                 THEN put(item_data, lit("ClassifiedTaxCategory"),
                          Dict(flatten_nested(sub.children, EmptyMap, lit("TaxScheme"))))
                 ELSE put(item_data, t, sub.text))

_parseInvoiceLineItem(xml_element) ==
    Dict(parseInvoiceLineItem_from(xml_element.children, EmptyMap))

\* child.attrib.get(name): null when the attribute is missing
attrib_get(child, name) ==
    IF name \in DOMAIN child.attrib THEN child.attrib[name] ELSE None

\* child.attrib[name]: KeyError when the attribute is missing
attrib_item(child, name) ==
    IF name \in DOMAIN child.attrib THEN child.attrib[name] ELSE Raise("KeyError")

\* the text and the attribute of a quantity or amount element, stored side by side
text_and_attrib(d, child, key, name) ==
    IF IsRaise(attrib_item(child, name)) THEN attrib_item(child, name)
    ELSE Dict(put(put(d.d, key, child.text), lit(name), attrib_item(child, name)))

\* the innermost loop over the children of a line-level TaxCategory
RECURSIVE line_tax_category(_, _)
line_tax_category(children, d) ==
    IF children = <<>> THEN d
    ELSE LET fourth       == Head(children)
             p_fourth_tag == prettify_tag(fourth.tag)
         IN  line_tax_category(
                 Tail(children),
                 IF p_fourth_tag = lit("ID") THEN put(d, lit("TaxID"), fourth.text)
                 ELSE IF p_fourth_tag = lit("Percent")
                 THEN put(d, lit("TaxPercent"), fourth.text)
                 ELSE IF p_fourth_tag = lit("TaxExemptionReason")
                 THEN put(d, lit("TaxExemptionReason"), fourth.text)
                 ELSE d)

\* the loop over the children of a line-level TaxSubtotal
RECURSIVE line_tax_subtotal(_, _)
line_tax_subtotal(children, d) ==
    IF children = <<>> THEN d
    ELSE LET third == Head(children)
         IN  line_tax_subtotal(
                 Tail(children),
                 IF prettify_tag(third.tag) = lit("TaxCategory")
                 THEN line_tax_category(third.children, d)
                 ELSE d)

\* the loop over the children of a line-level TaxTotal
RECURSIVE line_tax_total(_, _)
line_tax_total(children, d) ==
    IF children = <<>> THEN d
    ELSE LET sub        == Head(children)
             pretty_tag == prettify_tag(sub.tag)
             d1 == IF pretty_tag = lit("TaxAmount")
                   THEN put(d, lit("TaxAmount"), sub.text) ELSE d
             d2 == IF pretty_tag = lit("TaxSubtotal")
                   THEN line_tax_subtotal(sub.children, d1) ELSE d1
         IN  line_tax_total(Tail(children), d2)

\* InvoiceParser.parseInvoiceLine: the loop over the children of the line;
\* invoice_line_dict is a dict, or the exception raised so far.
RECURSIVE InvoiceParser_parseInvoiceLine_from(_, _)
InvoiceParser_parseInvoiceLine_from(children, invoice_line_dict) ==
    IF children = <<>> \/ IsRaise(invoice_line_dict) THEN invoice_line_dict
    ELSE LET child == Head(children)
             t     == prettify_tag(child.tag)
             d     == invoice_line_dict.d
         IN  InvoiceParser_parseInvoiceLine_from(
                 Tail(children),
                 IF t = lit("Item")
                 THEN Dict(put(d, lit("Items"), _parseInvoiceLineItem(child)))
                 ELSE IF t = lit("Price")
                 THEN Dict(put(d, lit("Price"), Dict(flatten_text(child.children, EmptyMap))))
                 ELSE IF t = lit("InvoicedQuantity")
                 THEN text_and_attrib(invoice_line_dict, child, lit("InvoicedQuantity"), "unitCode")
                 ELSE IF t = lit("LineExtensionAmount")
                 THEN text_and_attrib(invoice_line_dict, child, lit("LineExtensionAmount"), "currencyID")
                 ELSE IF t = lit("TaxTotal")
                 THEN Dict(line_tax_total(child.children, d))
                 ELSE Dict(put(d, t, child.text)))

InvoiceParser_parseInvoiceLine(xml_element) ==
    InvoiceParser_parseInvoiceLine_from(xml_element.children, Dict(EmptyMap))

\* CreditNoteParser.parseInvoiceLine
RECURSIVE CreditNoteParser_parseInvoiceLine_from(_, _)
CreditNoteParser_parseInvoiceLine_from(children, invoice_line_dict) ==
    IF children = <<>> \/ IsRaise(invoice_line_dict) THEN invoice_line_dict
    ELSE LET child == Head(children)
             t     == prettify_tag(child.tag)
             d     == invoice_line_dict.d
         IN  CreditNoteParser_parseInvoiceLine_from(
                 Tail(children),
                 IF t = lit("Item")
                 THEN Dict(put(d, lit("Items"), _parseInvoiceLineItem(child)))
                 ELSE IF t = lit("Price")
                 THEN Dict(put(d, lit("Price"), Dict(flatten_text(child.children, EmptyMap))))
                 ELSE IF t = lit("CreditedQuantity")
                 THEN text_and_attrib(invoice_line_dict, child, lit("InvoicedQuantity"), "unitCode")
                 ELSE IF t = lit("LineExtensionAmount")
                 THEN text_and_attrib(invoice_line_dict, child, lit("LineExtensionAmount"), "currencyID")
                 ELSE Dict(put(d, t, child.text)))

CreditNoteParser_parseInvoiceLine(xml_element) ==
    CreditNoteParser_parseInvoiceLine_from(xml_element.children, Dict(EmptyMap))

\* self.parseInvoiceLine(elem) without the override of CreditNoteParser
parseInvoiceLine_not_overridden(v, xml_element) ==
    InvoiceParser_parseInvoiceLine(xml_element)

\* self.parseInvoiceLine(elem), dispatched on the class of self
parseInvoiceLine(v, xml_element) ==
    IF v = "CreditNote" THEN CreditNoteParser_parseInvoiceLine(xml_element)
    ELSE InvoiceParser_parseInvoiceLine(xml_element)

\* a dict display {k1: v1, ...}: an exception raised while evaluating one of
\* the values (the first, in order) is raised by the whole display
RECURSIVE dict_display_from(_, _)
dict_display_from(pairs, d) ==
    IF pairs = <<>> THEN Dict(d)
    ELSE IF IsRaise(Head(pairs)[2]) THEN Head(pairs)[2]
    ELSE dict_display_from(Tail(pairs), put(d, lit(Head(pairs)[1]), Head(pairs)[2]))

dict_display(pairs) == dict_display_from(pairs, EmptyMap)

\* x = a; if x is None: x = b
or_else_none(a, b) == IF IsRaise(a) THEN a ELSE IF a # None THEN a ELSE b

\* x = a; if not x: x = b
or_else(a, b) == IF IsRaise(a) THEN a ELSE IF truthy(a) THEN a ELSE b

\* the body of the loop of _flatten_invoice_lines: the record of one line i
flattened_invoice_line(i) ==
    LET Items      == get(i, lit("Items"), Dict(EmptyMap))
        Classified == get(Items, lit("ClassifiedTaxCategory"), Dict(EmptyMap))
        tax_id      == or_else(get(Classified, lit("ID"), None),
                               get(i, lit("TaxID"), None))
        tax_percent == or_else(get(Classified, lit("Percent"), None),
                               get(i, lit("TaxPercent"), None))
        tax_exempt  == or_else(get(Classified, lit("TaxExemptionReason"), None),
                               get(i, lit("TaxExemptionReason"), None))
    IN  IF IsRaise(tax_id) THEN tax_id
        ELSE IF IsRaise(tax_percent) THEN tax_percent
        ELSE IF IsRaise(tax_exempt) THEN tax_exempt
        ELSE dict_display(<<
            <<"edi_line_id", get(i, lit("ID"), None)>>,
            <<"edi_line_name", get(Items, lit("Name"), None)>>,
            <<"edi_line_description", get(Items, lit("Description"), None)>>,
            <<"invoiced_quantity", get(i, lit("InvoicedQuantity"), None)>>,
            <<"invoiced_amount", get(i, lit("LineExtensionAmount"), None)>>,
            <<"single_unit_price",
              get(get(i, lit("Price"), Dict(EmptyMap)), lit("PriceAmount"), None)>>,
            <<"tax_category_id", tax_id>>,
            <<"tax_percent", tax_percent>>,
            <<"tax_exemption_reason", tax_exempt>>,
            <<"tax_scheme_code",
              get(get(Classified, lit("TaxScheme"), Dict(EmptyMap)), lit("ID"), None)>> >>)

RECURSIVE flatten_invoice_lines_from(_, _)
flatten_invoice_lines_from(lines, flattened_invoice_lines) ==
    IF lines = <<>> THEN List(flattened_invoice_lines)
    ELSE IF IsRaise(flattened_invoice_line(Head(lines)))
    THEN flattened_invoice_line(Head(lines))
    ELSE flatten_invoice_lines_from(
             Tail(lines),
             Append(flattened_invoice_lines, flattened_invoice_line(Head(lines))))

_flatten_invoice_lines(res) ==
    IF lit("InvoiceLines") \in DOMAIN res.d
    THEN flatten_invoice_lines_from(res.d[lit("InvoiceLines")].l, <<>>)
    ELSE List(<<>>)

parseLegalMonetaryTotal(xml_element) ==
    Dict(flatten_text(xml_element.children, EmptyMap))

parseInvoicePeriod(xml_element) ==
    Dict(flatten_text(xml_element.children, EmptyMap))

\* the loop over the children of a TaxSubtotal
RECURSIVE tax_subtotal_from(_, _)
tax_subtotal_from(children, tax_subtotal) ==
    IF children = <<>> THEN tax_subtotal
    ELSE LET child     == Head(children)
             child_tag == prettify_tag(child.tag)
         IN  tax_subtotal_from(
                 Tail(children),
                 IF child_tag = lit("TaxCategory")
                 THEN put(tax_subtotal, lit("TaxCategory"),
                          Dict(flatten_nested(child.children, EmptyMap, lit("TaxScheme"))))
                 ELSE put(tax_subtotal, child_tag, child.text))

RECURSIVE parseTaxTotal_from(_, _)
parseTaxTotal_from(children, tax_total) ==
    IF children = <<>> THEN tax_total
    ELSE LET elem == Head(children)
             t    == prettify_tag(elem.tag)
         IN  parseTaxTotal_from(
                 Tail(children),
                 IF t = lit("TaxSubtotal")
                 THEN put(tax_total, lit("TaxSubtotal"),
                          Dict(tax_subtotal_from(elem.children, EmptyMap)))
                 ELSE put(tax_total, t, elem.text))

parseTaxTotal(xml_element) == Dict(parseTaxTotal_from(xml_element.children, EmptyMap))

RECURSIVE parsePaymentMeans_from(_, _)
parsePaymentMeans_from(children, payment_means) ==
    IF children = <<>> THEN payment_means
    ELSE LET elem == Head(children)
             t    == prettify_tag(elem.tag)
         IN  parsePaymentMeans_from(
                 Tail(children),
                 IF t = lit("PayeeFinancialAccount")
                 THEN put(payment_means, lit("PayeeFinancialAccount"),
                          Dict(flatten_nested(elem.children, EmptyMap,
                                              lit("FinancialInstitutionBranch"))))
                 ELSE put(payment_means, t, elem.text))

parsePaymentMeans(xml_element) ==
    Dict(parsePaymentMeans_from(xml_element.children, EmptyMap))

\* the characters str.strip() and str.lstrip() remove
Whitespace == {" ", "\t", "\n", "\r", "\f"}

RECURSIVE lstrip(_)
lstrip(s) == IF s # <<>> /\ Head(s) \in Whitespace THEN lstrip(Tail(s)) ELSE s

RECURSIVE rstrip(_)
rstrip(s) ==
    IF s # <<>> /\ s[Len(s)] \in Whitespace THEN rstrip(SubSeq(s, 1, Len(s) - 1)) ELSE s

strip(s) == lstrip(rstrip(s))

\* the split without the strip of the reference
_parse_payment_id_unstripped(string) ==
    IF IsRaise(string) THEN <<string, string>>
    ELSE IF string = None THEN <<None, None>>
    ELSE <<Str(SubSeq(string.s, 1, IF Len(string.s) < 4 THEN Len(string.s) ELSE 4)),
           Str(SubSeq(string.s, 5, Len(string.s)))>>

\* the pair (payment model, payment reference)
_parse_payment_id(string) ==
    IF IsRaise(string) THEN <<string, string>>
    ELSE IF string = None THEN <<None, None>>
    ELSE <<Str(SubSeq(string.s, 1, IF Len(string.s) < 4 THEN Len(string.s) ELSE 4)),
           Str(lstrip(SubSeq(string.s, 5, Len(string.s))))>>

SingleChildTags ==
    {lit("PartyIdentification"), lit("PartyName"), lit("PartyLegalEntity"), lit("Contact")}

\* the loop over the children of a Party
RECURSIVE party_from(_, _)
party_from(children, party) ==
    IF children = <<>> THEN party
    ELSE LET sub_elem     == Head(children)
             sub_elem_tag == prettify_tag(sub_elem.tag)
         IN  party_from(
                 Tail(children),
                 IF sub_elem_tag \in SingleChildTags
                 THEN put(party, sub_elem_tag, Dict(flatten_text(sub_elem.children, EmptyMap)))
                 ELSE IF sub_elem_tag = lit("PostalAddress")
                 THEN put(party, sub_elem_tag,
                          Dict(flatten_nested(sub_elem.children, EmptyMap, lit("Country"))))
                 ELSE IF sub_elem_tag = lit("PartyTaxScheme")
                 THEN put(party, sub_elem_tag,
                          Dict(flatten_nested(sub_elem.children, EmptyMap, lit("TaxScheme"))))
                 ELSE put(party, sub_elem_tag, sub_elem.text))

\* parseAccountingParty reading the children outside Party as well
RECURSIVE parseAccountingParty_any(_, _)
parseAccountingParty_any(children, party) ==
    IF children = <<>> THEN party
    ELSE LET elem == Head(children)
         IN  parseAccountingParty_any(
                 Tail(children),
                 IF prettify_tag(elem.tag) = lit("Party")
                 THEN party_from(elem.children, party)
                 ELSE party_from(<<elem>>, party))

RECURSIVE parseAccountingParty_from(_, _)
parseAccountingParty_from(children, party) ==
    IF children = <<>> THEN party
    ELSE LET elem == Head(children)
         IN  parseAccountingParty_from(
                 Tail(children),
                 IF prettify_tag(elem.tag) = lit("Party")
                 THEN party_from(elem.children, party)
                 ELSE party)

parseAccountingParty(xml_element) ==
    Dict(parseAccountingParty_from(xml_element.children, EmptyMap))

\* the code points of the characters of the attachments of the model
ord(c) ==
    CASE c = "A"  -> 65
      [] c = "B"  -> 66
      [] c = "="  -> 61
      [] c = " "  -> 32
      [] c = "\n" -> 10

\* str.encode('utf-8') of a string of these characters
RECURSIVE encode(_)
encode(s) == IF s = <<>> THEN <<>> ELSE <<ord(Head(s))>> \o encode(Tail(s))

B64Alphabet ==
    <<"A", "B", "C", "D", "E", "F", "G", "H", "I", "J", "K", "L", "M", "N", "O", "P",
      "Q", "R", "S", "T", "U", "V", "W", "X", "Y", "Z", "a", "b", "c", "d", "e", "f",
      "g", "h", "i", "j", "k", "l", "m", "n", "o", "p", "q", "r", "s", "t", "u", "v",
      "w", "x", "y", "z", "0", "1", "2", "3", "4", "5", "6", "7", "8", "9", "+", "/">>

b64char(n) == B64Alphabet[n + 1]

\* base64.b64encode of a sequence of bytes, as the sequence of its characters
RECURSIVE b64encode(_)
b64encode(bs) ==
    IF Len(bs) = 0 THEN <<>>
    ELSE IF Len(bs) = 1
    THEN LET n == bs[1] * 16
         IN  <<b64char(n \div 64), b64char(n % 64), "=", "=">>
    ELSE IF Len(bs) = 2
    THEN LET n == (bs[1] * 256 + bs[2]) * 4
         IN  <<b64char(n \div 4096), b64char((n \div 64) % 64), b64char(n % 64), "=">>
    ELSE LET n == bs[1] * 65536 + bs[2] * 256 + bs[3]
         IN  <<b64char(n \div 262144), b64char((n \div 4096) % 64),
               b64char((n \div 64) % 64), b64char(n % 64)>>
             \o b64encode(SubSeq(bs, 4, Len(bs)))

\* base64.b64encode(child.text.strip().encode('utf-8')): None has no strip
embedded_object(child) ==
    IF child.text = None THEN Raise("AttributeError")
    ELSE Bytes(b64encode(encode(strip(child.text.s))))

\* the loop over the children of an Attachment
RECURSIVE attachment_from(_, _)
attachment_from(children, pdf_doc) ==
    IF children = <<>> \/ IsRaise(pdf_doc) THEN pdf_doc
    ELSE LET child == Head(children)
         IN  attachment_from(
                 Tail(children),
                 IF prettify_tag(child.tag) = lit("EmbeddedDocumentBinaryObject")
                 THEN embedded_object(child)
                 ELSE pdf_doc)

RECURSIVE parsePdfDocument_from(_, _)
parsePdfDocument_from(children, pdf_doc) ==
    IF children = <<>> \/ IsRaise(pdf_doc) THEN pdf_doc
    ELSE LET elem == Head(children)
         IN  parsePdfDocument_from(
                 Tail(children),
                 IF prettify_tag(elem.tag) = lit("Attachment")
                 THEN attachment_from(elem.children, pdf_doc)
                 ELSE pdf_doc)

parsePdfDocument(xml_element) ==
    LET pdf_doc == parsePdfDocument_from(xml_element.children, Str(<<>>))
    IN  IF IsRaise(pdf_doc) THEN pdf_doc
        ELSE IF truthy(pdf_doc) THEN pdf_doc
        ELSE None

---------------------------------------------------------------------------
(* The projection of the accumulated sections.                             *)

\* result.get(a, {}).get(b, {}) ... .get(last): the chain of gets along path
RECURSIVE get_path(_, _)
get_path(obj, path) ==
    IF Len(path) = 1 THEN get(obj, lit(path[1]), None)
    ELSE get_path(get(obj, lit(Head(path)), Dict(EmptyMap)), Tail(path))

\* the twelve fields of a party record, read from the section called section
party_record(res, section, prefix) ==
    dict_display(<<
        <<prefix \o "_id", get_path(res, <<section, "EndpointID">>)>>,
        <<prefix \o "_identificator", get_path(res, <<section, "PartyIdentification", "ID">>)>>,
        <<prefix \o "_name", get_path(res, <<section, "PartyName", "Name">>)>>,
        <<prefix \o "_street", get_path(res, <<section, "PostalAddress", "StreetName">>)>>,
        <<prefix \o "_city", get_path(res, <<section, "PostalAddress", "CityName">>)>>,
        <<prefix \o "_postal_code", get_path(res, <<section, "PostalAddress", "PostalZone">>)>>,
        <<prefix \o "_country_code",
          get_path(res, <<section, "PostalAddress", "Country", "IdentificationCode">>)>>,
        <<prefix \o "_company_id", get_path(res, <<section, "PartyTaxScheme", "CompanyID">>)>>,
        <<prefix \o "_tax_scheme_code",
          get_path(res, <<section, "PartyTaxScheme", "TaxScheme", "ID">>)>>,
        <<prefix \o "_registration_name",
          get_path(res, <<section, "PartyLegalEntity", "RegistrationName">>)>>,
        <<prefix \o "_telephone", get_path(res, <<section, "Contact", "Telephone">>)>>,
        <<prefix \o "_email", get_path(res, <<section, "Contact", "ElectronicMail">>)>> >>)

invoice_header(res) ==
    LET payment == _parse_payment_id(get_path(res, <<"PaymentMeans", "PaymentID">>))
    IN  dict_display(<<
        <<"document_reference", get_path(res, <<"InvoiceDocumentReference">>)>>,
        <<"currency", get_path(res, <<"TaxCurrencyCode">>)>>,
        <<"due_date", get_path(res, <<"DueDate">>)>>,
        <<"customization_id", get_path(res, <<"CustomizationID">>)>>,
        <<"edi_supplier_invoice_id", get_path(res, <<"ID">>)>>,
        <<"tax_amount", get_path(res, <<"TaxTotal", "TaxAmount">>)>>,
        <<"tax_percent",
          get_path(res, <<"TaxTotal", "TaxSubtotal", "TaxCategory", "Percent">>)>>,
        <<"tax_exemption_reason",
          get_path(res, <<"TaxTotal", "TaxSubtotal", "TaxCategory", "TaxExemptionReason">>)>>,
        <<"taxable_amount", get_path(res, <<"TaxTotal", "TaxSubtotal", "TaxableAmount">>)>>,
        <<"iban", get_path(res, <<"PaymentMeans", "PayeeFinancialAccount", "ID">>)>>,
        <<"instruction_note", get_path(res, <<"PaymentMeans", "InstructionNote">>)>>,
        <<"payment_means_code", get_path(res, <<"PaymentMeans", "PaymentMeansCode">>)>>,
        <<"payment_id", get_path(res, <<"PaymentMeans", "PaymentID">>)>>,
        <<"payable_amount", get_path(res, <<"LegalMonetaryTotal", "PayableAmount">>)>>,
        <<"payment_model", payment[1]>>,
        <<"payment_reference", payment[2]>> >>)

InvoiceParser_post_process_result_dict(res) ==
    dict_display(<<
        <<"supplier", party_record(res, "AccountingSupplierParty", "edi_supplier")>>,
        <<"customer", party_record(res, "AccountingCustomerParty", "edi_customer")>>,
        <<"invoice_header", invoice_header(res)>>,
        <<"pdf_document",
          dict_display(<< <<"pdf_document", get_path(res, <<"PdfDocument">>)>> >>)>>,
        <<"invoice_lines", _flatten_invoice_lines(res)>> >>)

\* the override of the due date forgotten
CreditNoteParser_post_process_no_override(res) ==
    InvoiceParser_post_process_result_dict(res)

CreditNoteParser_post_process_result_dict(res) ==
    LET super == InvoiceParser_post_process_result_dict(res)
    IN  IF IsRaise(super) THEN super
        ELSE Dict(put(super.d, lit("invoice_header"),
                      Dict(put(super.d[lit("invoice_header")].d, lit("due_date"),
                               get(res, lit("IssueDate"), None)))))

\* self._post_process_result_dict(sol), dispatched on the class of self
_post_process_result_dict(v, res) ==
    IF v = "CreditNote" THEN CreditNoteParser_post_process_result_dict(res)
    ELSE InvoiceParser_post_process_result_dict(res)

---------------------------------------------------------------------------
(* The tag strings prettify_tag is tried on.                               *)

TagAlphabet ==
    {URN, "Common", "Extension", "Basic", "Aggregate", "Components-2}",
     "Invoice-2}", "ID"}

RECURSIVE SeqsUpTo(_, _)
SeqsUpTo(S, n) ==
    IF n = 0 THEN {<<>>}
    ELSE LET shorter == SeqsUpTo(S, n - 1)
         IN  shorter \cup {Append(s, x) : s \in shorter, x \in S}

\* the tag strings of at most n chunks
TagSet(n) == SeqsUpTo(TagAlphabet, n)

IdleW == /\ variant = "Invoice" /\ xml_root = <<>> /\ idx = 0
         /\ sol = None /\ pc = "idle" /\ result = None
    /\ first = None
IdleL == /\ line_elem = None /\ line_dict = None /\ line_rec = None /\ lpc = "idle"
IdleT == /\ tag = <<>> /\ pretty = <<>> /\ pretty2 = <<>> /\ tpc = "idle"
IdleP == /\ pm_elem = None /\ payment_sol = None /\ payment_header = None
         /\ ppc = "idle"
IdleD == /\ doc_ref = None /\ pdf_out = None /\ dpc = "idle"
IdleC == /\ parsers = <<>> /\ heap = <<>>
IdleE == /\ auth_jwt = None /\ auth_ts = None /\ resources = {} /\ stack = <<>>
         /\ sent = None /\ last_auth = None /\ outcome = None
         /\ calls = 0 /\ now = 0
IdleA == /\ oib_lst = None /\ apc = "idle" /\ async_headers = None
         /\ tasks = <<>> /\ completed = <<>> /\ async_ret = None
IdleU == /\ update_args = None /\ doc_process_status = {} /\ posted = <<>>
         /\ upc = "idle" /\ update_out = None
IdleK == /\ self_xml_root = None /\ callers = <<>>
IdleX == IdleA /\ IdleU /\ IdleK

InitTag ==
    /\ tag \in TagSet(MaxTagLen)
    /\ pretty = <<>> /\ pretty2 = <<>> /\ tpc = "start"
    /\ IdleW /\ IdleL /\ IdleP /\ IdleD /\ IdleC /\ IdleE /\ IdleX

\* pretty = self.prettify_tag(tag)
Prettify ==
    /\ tpc = "start"
    /\ pretty' = prettify_tag(tag)
    /\ tpc' = "once"
    /\ UNCHANGED <<tag, pretty2>>
    /\ UNCHANGED not_t

\* the result stripped a second time
PrettifyAgain ==
    /\ tpc = "once"
    /\ pretty2' = prettify_tag(pretty)
    /\ tpc' = "twice"
    /\ UNCHANGED <<tag, pretty>>
    /\ UNCHANGED not_t

NextTag == Prettify \/ PrettifyAgain

SpecTag == InitTag /\ [][NextTag]_vars

---------------------------------------------------------------------------
(* One line element parsed and flattened.                                  *)

\* marks an element left out of a generated document
Absent == [py |-> "absent"]

\* <cbc:name>text</cbc:name>, or nothing
opt(name, text) == IF text = Absent THEN <<>> ELSE <<cbc(name, text)>>

TaxIdTexts      == {Absent, None, Str(<<>>), Str(<<"E">>)}
TaxPercentTexts == {Absent, None, Str(<<>>), Str(<<"0">>)}
TaxReasonTexts  == {Absent, Str(<<"R", "1">>)}

\* the Item of a line, with or without a ClassifiedTaxCategory
ItemSet ==
    {cac("Item", <<cbc("Name", Str(<<"N">>))>>)} \cup
    {cac("Item", <<cbc("Name", Str(<<"N">>)),
                   cac("ClassifiedTaxCategory",
                       opt("ID", id) \o opt("Percent", pct)
                       \o opt("TaxExemptionReason", why)
                       \o <<cac("TaxScheme", <<cbc("ID", Str(<<"V", "A", "T">>))>>)>>)>>)
        : id \in TaxIdTexts, pct \in TaxPercentTexts, why \in TaxReasonTexts}

\* the line-level TaxTotal of a line, or nothing
LineTaxTotalSet ==
    {<<>>} \cup
    {<<cac("TaxTotal",
           <<cbc("TaxAmount", Str(<<"2">>)),
             cac("TaxSubtotal",
                 <<cac("TaxCategory",
                       opt("ID", id) \o opt("Percent", pct)
                       \o opt("TaxExemptionReason", why))>>)>>)>>
        : id \in {Absent, Str(<<"S">>)}, pct \in {Absent, Str(<<"2", "5">>)},
          why \in {Absent, Str(<<"R", "2">>)}}

QuantityTag(v) == IF v = "CreditNote" THEN "CreditedQuantity" ELSE "InvoicedQuantity"
LineTag(v)     == IF v = "CreditNote" THEN "CreditNoteLine" ELSE "InvoiceLine"

\* a line of the variant v
Line(v, item, taxtotal) ==
    cac(LineTag(v),
        <<cbc("ID", Str(<<"1">>)),
          cbcAttr(QuantityTag(v), Str(<<"5">>), "unitCode", Str(<<"K", "O", "M">>)),
          cbcAttr("LineExtensionAmount", Str(<<"1", "0">>), "currencyID",
                  Str(<<"H", "R", "K">>))>>
        \o taxtotal
        \o <<item, cac("Price", <<cbc("PriceAmount", Str(<<"2">>))>>)>>)

LineSet(v) == {Line(v, item, taxtotal) : item \in ItemSet, taxtotal \in LineTaxTotalSet}

Variants == {"Invoice", "CreditNote"}

InitLine ==
    /\ variant \in Variants
    /\ xml_root = <<>> /\ idx = 0 /\ sol = None /\ pc = "idle" /\ result = None
    /\ first = None
    /\ line_elem \in LineSet(variant)
    /\ line_dict = None /\ line_rec = None /\ lpc = "start"
    /\ IdleT /\ IdleP /\ IdleD /\ IdleC /\ IdleE /\ IdleX

\* self.parseInvoiceLine(elem)
ParseLine ==
    /\ lpc = "start"
    /\ line_dict' = parseInvoiceLine(variant, line_elem)
    /\ lpc' = IF IsRaise(line_dict') THEN "failed" ELSE "parsed"
    /\ UNCHANGED <<line_elem, line_rec>>
    /\ UNCHANGED not_l

\* self._flatten_invoice_lines({"InvoiceLines": [line_dict]})
FlattenLine ==
    /\ lpc = "parsed"
    /\ LET flat == _flatten_invoice_lines(
                       Dict(put(EmptyMap, lit("InvoiceLines"), List(<<line_dict>>))))
       IN  /\ line_rec' = IF IsRaise(flat) THEN flat ELSE flat.l[1]
           /\ lpc' = IF IsRaise(flat) THEN "failed" ELSE "flat"
    /\ UNCHANGED <<line_elem, line_dict>>
    /\ UNCHANGED not_l

NextLine == ParseLine \/ FlattenLine

SpecLine == InitLine /\ [][NextLine]_vars

---------------------------------------------------------------------------
(* Run: the walk over the direct children of the root, then the            *)
(* projection.                                                             *)

\* <ext:name> children </ext:name>
ext(name, children) == Elem(NsExtension \o <<name>>, None, NoAttrib, children)

SupplierParty ==
    cac("AccountingSupplierParty",
        <<cac("Party",
              <<cbc("EndpointID", Str(<<"6", "5">>)),
                cac("PartyName", <<cbc("Name", Str(<<"S", "U", "P">>))>>),
                cac("PostalAddress",
                    <<cbc("CityName", Str(<<"Z", "G">>)),
                      cac("Country", <<cbc("IdentificationCode", Str(<<"H", "R">>))>>)>>),
                cac("PartyTaxScheme",
                    <<cbc("CompanyID", Str(<<"7">>)),
                      cac("TaxScheme", <<cbc("ID", Str(<<"V", "A", "T">>))>>)>>)>>)>>)

CustomerParty ==
    cac("AccountingCustomerParty",
        <<cac("Party",
              <<cbc("EndpointID", Str(<<"8", "1">>)),
                cac("PartyLegalEntity", <<cbc("RegistrationName", Str(<<"C", "U", "S">>))>>),
                cac("Contact", <<cbc("ElectronicMail", Str(<<"c", "@", "x">>))>>)>>)>>)

\* a second supplier block: other values, an identification and a telephone
\* the first lacks, and no name, address or tax scheme
SupplierParty2 ==
    cac("AccountingSupplierParty",
        <<cac("Party",
              <<cbc("EndpointID", Str(<<"6", "6">>)),
                cac("PartyIdentification", <<cbc("ID", Str(<<"I", "2">>))>>),
                cac("Contact", <<cbc("Telephone", Str(<<"0", "1">>))>>)>>)>>)

\* a second customer block: other values, a name the first lacks, no contact
CustomerParty2 ==
    cac("AccountingCustomerParty",
        <<cac("Party",
              <<cbc("EndpointID", Str(<<"8", "2">>)),
                cac("PartyName", <<cbc("Name", Str(<<"C", "2">>))>>)>>)>>)

\* the children of the documents that repeat a party block
PartyPool ==
    {SupplierParty, SupplierParty2, CustomerParty, CustomerParty2,
     cbc("Note", Str(<<"A">>))}

\* the party blocks a document starts with
PartyHeads == {<<>>, <<SupplierParty>>, <<CustomerParty>>, <<SupplierParty, CustomerParty>>}

SampleItem ==
    cac("Item", <<cbc("Name", Str(<<"N">>)),
                  cac("ClassifiedTaxCategory",
                      <<cbc("ID", Str(<<"E">>)), cbc("Percent", Str(<<"0">>))>>)>>)

SampleLineTaxTotal ==
    <<cac("TaxTotal",
          <<cac("TaxSubtotal",
                <<cac("TaxCategory",
                      <<cbc("ID", Str(<<"S">>)), cbc("Percent", Str(<<"2", "5">>))>>)>>)>>)>>

NoteTexts == {None, Str(<<>>), Str(<<"A">>), Str(<<"B">>)}

\* the top-level children a document is made of, besides its party blocks
Pool ==
    {ext("UBLExtensions", <<cbc("Note", Str(<<"X">>))>>),
     Line("Invoice", SampleItem, SampleLineTaxTotal),
     Line("CreditNote", SampleItem, <<>>),
     cac("LegalMonetaryTotal", <<cbc("PayableAmount", Str(<<"1", "2">>))>>),
     cac("TaxTotal",
         <<cbc("TaxAmount", Str(<<"3">>)),
           cac("TaxSubtotal",
               <<cbc("TaxableAmount", Str(<<"9">>)),
                 cac("TaxCategory",
                     <<cbc("Percent", Str(<<"2", "5">>)),
                       cac("TaxScheme", <<cbc("ID", Str(<<"V", "A", "T">>))>>)>>)>>)>>),
     cac("PaymentMeans",
         <<cbc("PaymentID", Str(<<"H", "R", "0", "2", " ", "3">>)),
           cac("PayeeFinancialAccount", <<cbc("ID", Str(<<"I", "B">>))>>)>>),
     cac("InvoicePeriod", <<cbc("StartDate", Str(<<"P">>))>>),
     cac("AdditionalDocumentReference",
         <<cac("Attachment",
               <<cbc("EmbeddedDocumentBinaryObject",
                     Str(<<"A", "B", "=", "=", " ", " ", "\n">>))>>)>>),
     cbc("IssueDate", Str(<<"D", "1">>)),
     cbc("DueDate", Str(<<"D", "2">>)),
     cac("BillingReference",
         <<cac("InvoiceDocumentReference",
               <<cbc("ID", Str(<<"R", "E", "F">>)), cbc("IssueDate", Str(<<"D", "0">>))>>)>>)}
    \cup {cbc("Note", text) : text \in NoteTexts}

\* the documents: party blocks, then at most n further children
DocSet(n) == {head \o body : head \in PartyHeads, body \in SeqsUpTo(Pool, n)}

\* <cbc:name a="v">text</cbc:name>, without the attribute when v is Absent
cbcOptAttr(name, text, a, v) ==
    IF v = Absent THEN cbc(name, text) ELSE cbcAttr(name, text, a, v)

\* a line of the variant v numbered id, whose quantity and amount have the
\* attributes given (Absent: the attribute is missing)
LineOf(v, id, unitCode, currencyID) ==
    cac(LineTag(v),
        <<cbc("ID", Str(id)),
          cbcOptAttr(QuantityTag(v), Str(<<"5">>), "unitCode", unitCode),
          cbcOptAttr("LineExtensionAmount", Str(<<"1", "0">>), "currencyID", currencyID),
          SampleItem>>)

\* an AdditionalDocumentReference whose embedded object has no text
EmptyAttachment ==
    cac("AdditionalDocumentReference",
        <<cac("Attachment", <<cbc("EmbeddedDocumentBinaryObject", None)>>)>>)

\* the children of the documents made of lines of the variant v: two lines as
\* the schema wants them, one without unitCode, one without currencyID, and
\* two other sections
LinePool(v) ==
    {LineOf(v, <<"1">>, Str(<<"K", "O", "M">>), Str(<<"H", "R", "K">>)),
     LineOf(v, <<"2">>, Str(<<"K", "O", "M">>), Str(<<"H", "R", "K">>)),
     LineOf(v, <<"3">>, Absent, Str(<<"H", "R", "K">>)),
     LineOf(v, <<"4">>, Str(<<"K", "O", "M">>), Absent),
     cbc("Note", Str(<<"A">>)),
     EmptyAttachment}

\* the documents with both party blocks and at most n further children, lines
\* of one variant among them
LineDocSet(n) ==
    {<<SupplierParty, CustomerParty>> \o body :
        body \in UNION {SeqsUpTo(LinePool(v), n) : v \in Variants}}

\* the documents of at most n children that repeat party blocks
PartyDocSet(n) == SeqsUpTo(PartyPool, n)

\* <cac:TaxSubtotal>: a TaxableAmount, and a TaxCategory unless it would be
\* empty
TaxSubtotalOf(taxable, percent, reason) ==
    cac("TaxSubtotal",
        <<cbc("TaxableAmount", taxable)>> \o
        (IF percent = Absent /\ reason = Absent THEN <<>>
         ELSE <<cac("TaxCategory",
                    opt("Percent", percent) \o opt("TaxExemptionReason", reason))>>))

\* the TaxSubtotal sequences of a top-level TaxTotal: none, one, two, and two
\* of which the last has no TaxCategory
TaxSubtotalLists ==
    LET s1 == TaxSubtotalOf(Str(<<"1", "0">>), Str(<<"2", "5">>), Absent)
        s2 == TaxSubtotalOf(Str(<<"2", "0">>), Str(<<"0">>), Str(<<"R", "1">>))
        s3 == TaxSubtotalOf(Str(<<"3", "0">>), Absent, Absent)
    IN  {<<>>, <<s1>>, <<s1, s2>>, <<s2, s1>>, <<s2, s3>>}

\* the top-level TaxTotal elements
TaxTotalPool ==
    {cac("TaxTotal", <<cbc("TaxAmount", amount)>> \o subtotals)
        : amount \in {Str(<<"1">>), Str(<<"2">>)}, subtotals \in TaxSubtotalLists}

\* the documents made of tax totals: both party blocks, then at most n
\* TaxTotal elements
TaxDocSet(n) ==
    {<<SupplierParty, CustomerParty>> \o body : body \in SeqsUpTo(TaxTotalPool, n)}

\* <cac:AdditionalDocumentReference> with an embedded object of that text
AttachmentOf(text) ==
    cac("AdditionalDocumentReference",
        <<cbc("ID", Str(<<"1">>)),
          cac("Attachment", <<cbc("EmbeddedDocumentBinaryObject", text)>>)>>)

\* the top-level AdditionalDocumentReference elements: two with a PDF, one
\* with an embedded object of blanks, one with an embedded object without
\* text, one with no attachment at all
AttachmentPool ==
    {AttachmentOf(Str(<<"A", "B">>)), AttachmentOf(Str(<<"B">>)),
     AttachmentOf(Str(<<" ">>)), AttachmentOf(None),
     cac("AdditionalDocumentReference", <<cbc("ID", Str(<<"2">>))>>)}

\* the documents made of attachments: both party blocks, then at most n
\* AdditionalDocumentReference elements
AttachmentDocSet(n) ==
    {<<SupplierParty, CustomerParty>> \o body : body \in SeqsUpTo(AttachmentPool, n)}

\* the top-level children of the documents made of extension blocks for the
\* variant v: a UBLExtensions block holding, in a UBLExtension or directly,
\* an ID, a line, a party block and a note; and an ID, a line and a note of
\* the document itself
ExtensionPool(v) ==
    {ext("UBLExtensions",
         <<ext("UBLExtension",
               <<cbc("ID", Str(<<"9">>)), Line(v, SampleItem, <<>>)>>)>>),
     ext("UBLExtensions",
         <<cbc("ID", Str(<<"9">>)), Line(v, SampleItem, <<>>), SupplierParty2,
           cbc("Note", Str(<<"X">>))>>),
     cbc("ID", Str(<<"7">>)),
     Line(v, SampleItem, <<>>),
     cbc("Note", Str(<<"A">>))}

\* the documents made of extension blocks: both party blocks, then at most n
\* such children
ExtensionDocSet(v, n) ==
    {<<SupplierParty, CustomerParty>> \o body : body \in SeqsUpTo(ExtensionPool(v), n)}

\* a Party wrapper with every block of a party record, PartyIdentification
\* twice
FullParty ==
    cac("Party",
        <<cbc("EndpointID", Str(<<"6", "5">>)),
          cac("PartyIdentification", <<cbc("ID", Str(<<"I", "1">>))>>),
          cac("PartyIdentification", <<cbc("ID", Str(<<"I", "2">>))>>),
          cac("PartyName", <<cbc("Name", Str(<<"S", "U", "P">>))>>),
          cac("PostalAddress",
              <<cbc("StreetName", Str(<<"S">>)),
                cac("Country", <<cbc("IdentificationCode", Str(<<"H", "R">>))>>)>>),
          cac("PartyTaxScheme",
              <<cbc("CompanyID", Str(<<"7">>)),
                cac("TaxScheme", <<cbc("ID", Str(<<"V", "A", "T">>))>>)>>),
          cac("PartyLegalEntity", <<cbc("RegistrationName", Str(<<"R", "E", "G">>))>>),
          cac("Contact",
              <<cbc("Telephone", Str(<<"0", "1">>)),
                cbc("ElectronicMail", Str(<<"c", "@", "x">>))>>)>>)

\* a Party wrapper with an EndpointID and a telephone only
ShortParty ==
    cac("Party",
        <<cbc("EndpointID", Str(<<"6", "6">>)),
          cac("Contact", <<cbc("Telephone", Str(<<"0", "2">>))>>)>>)

\* the children of a trading-party section: the two Party wrappers, and
\* outside Party an EndpointID, a PartyName, a PartyTaxScheme and a Party
\* wrapper one level further down
SectionPool ==
    {FullParty, ShortParty,
     cbc("EndpointID", Str(<<"9", "9">>)),
     cac("PartyName", <<cbc("Name", Str(<<"O", "U", "T">>))>>),
     cac("PartyTaxScheme", <<cac("TaxScheme", <<cbc("ID", Str(<<"O", "U", "T">>))>>)>>),
     cac("SellerContact", <<cac("Party", <<cbc("EndpointID", Str(<<"9", "8">>))>>)>>)}

\* the documents of one supplier and one customer section, one of them with
\* at most n children of that pool
SectionDocSet(n) ==
    {<<cac("AccountingSupplierParty", kids), CustomerParty>> : kids \in SeqsUpTo(SectionPool, n)}
    \cup {<<SupplierParty, cac("AccountingCustomerParty", kids)>> : kids \in SeqsUpTo(SectionPool, n)}

Init ==
    /\ variant \in Variants
    /\ xml_root \in DocSet(MaxBody) \cup PartyDocSet(MaxParties) \cup LineDocSet(MaxLines)
    /\ idx = 0 /\ sol = None /\ pc = "constructed" /\ result = None
    /\ first = None
    /\ IdleL /\ IdleT /\ IdleP /\ IdleD /\ IdleC /\ IdleE /\ IdleX

\* the accumulator as Run seeds it
SeededSol ==
    Dict(put(put(put(put(EmptyMap,
        lit("Note"), Str(<<>>)),
        lit("InvoiceLines"), List(<<>>)),
        lit("AccountingSupplierParty"), List(<<>>)),
        lit("AccountingCustomerParty"), List(<<>>)))

\* Run keeping the accumulator of the run before
RunBegin_keeping ==
    /\ pc = "constructed"
    /\ sol' = IF sol = None THEN SeededSol ELSE sol
    /\ idx' = 1
    /\ pc' = "walk"
    /\ UNCHANGED <<first, variant, xml_root, result>>
    /\ UNCHANGED not_w

\* Run is called: the accumulator is seeded and the loop starts
RunBegin ==
    /\ pc = "constructed"
    /\ sol' = SeededSol
    /\ idx' = 1
    /\ pc' = "walk"
    /\ UNCHANGED <<first, variant, xml_root, result>>
    /\ UNCHANGED not_w

\* the loop is at the child elem, whose stripped tag is CurrentTag
AtChild == pc = "walk" /\ idx <= Len(xml_root)
CurrentTag == prettify_tag(xml_root[idx].tag)

\* the tags Run has a branch for
HandledTags(v) ==
    {lit("UBLExtensions"), lit(LineTag(v)), lit("LegalMonetaryTotal"), lit("TaxTotal"),
     lit("PaymentMeans"), lit("AccountingSupplierParty"), lit("AccountingCustomerParty"),
     lit("InvoicePeriod"), lit("AdditionalDocumentReference"), lit("Note")}

\* sol[key] = value, and the loop passes over the next child
Store_skipping(key, value) ==
    /\ sol' = Dict(put(sol.d, key, value))
    /\ idx' = idx + 2
    /\ UNCHANGED <<first, variant, xml_root, pc, result>>
    /\ UNCHANGED not_w

\* sol[key] = value, and on to the next child
Store(key, value) ==
    /\ sol' = Dict(put(sol.d, key, value))
    /\ idx' = idx + 1
    /\ UNCHANGED <<first, variant, xml_root, pc, result>>
    /\ UNCHANGED not_w

\* an exception raised by a handler leaves Run
Fail(exc) ==
    /\ pc' = "failed"
    /\ result' = exc
    /\ UNCHANGED <<first, variant, xml_root, idx, sol>>
    /\ UNCHANGED not_w

\* the UBLExtensions branch storing the text of the first child of the block
\* under its tag
RunUBLExtensions_descending ==
    /\ AtChild /\ CurrentTag = lit("UBLExtensions")
    /\ IF xml_root[idx].children # <<>>
       THEN Store(prettify_tag(xml_root[idx].children[1].tag),
                  xml_root[idx].children[1].text)
       ELSE Store(CurrentTag, None)

RunUBLExtensions ==
    /\ AtChild /\ CurrentTag = lit("UBLExtensions")
    /\ idx' = idx + 1
    /\ UNCHANGED <<first, variant, xml_root, sol, pc, result>>
    /\ UNCHANGED not_w

\* the line branch putting the line before those parsed so far
RunInvoiceLine_prepend ==
    /\ AtChild /\ CurrentTag = lit(LineTag(variant))
    /\ LET parsed == parseInvoiceLine(variant, xml_root[idx])
       IN  IF IsRaise(parsed) THEN Fail(parsed)
           ELSE Store(lit("InvoiceLines"),
                      List(<<parsed>> \o sol.d[lit("InvoiceLines")].l))

RunInvoiceLine ==
    /\ AtChild /\ CurrentTag = lit(LineTag(variant))
    /\ LET parsed == parseInvoiceLine(variant, xml_root[idx])
       IN  IF IsRaise(parsed) THEN Fail(parsed)
           ELSE Store(lit("InvoiceLines"),
                      List(Append(sol.d[lit("InvoiceLines")].l, parsed)))

RunLegalMonetaryTotal ==
    /\ AtChild /\ CurrentTag = lit("LegalMonetaryTotal")
    /\ Store(lit("LegalMonetaryTotal"), parseLegalMonetaryTotal(xml_root[idx]))

\* the TaxTotal branch keeping the first TaxTotal of the document
RunTaxTotal_first ==
    /\ AtChild /\ CurrentTag = lit("TaxTotal")
    /\ Store(lit("TaxTotal"),
             IF lit("TaxTotal") \in DOMAIN sol.d THEN sol.d[lit("TaxTotal")]
             ELSE parseTaxTotal(xml_root[idx]))

RunTaxTotal ==
    /\ AtChild /\ CurrentTag = lit("TaxTotal")
    /\ Store(lit("TaxTotal"), parseTaxTotal(xml_root[idx]))

RunPaymentMeans ==
    /\ AtChild /\ CurrentTag = lit("PaymentMeans")
    /\ Store(lit("PaymentMeans"), parsePaymentMeans(xml_root[idx]))

\* the parsed block merged into the block stored before it
merged_party(old, new) ==
    IF old.py = "dict"
    THEN Dict([k \in (DOMAIN old.d) \cup (DOMAIN new.d) |->
                  IF k \in DOMAIN new.d THEN new.d[k] ELSE old.d[k]])
    ELSE new

\* the supplier branch keeping the fields of the earlier blocks
RunAccountingSupplierParty_merged ==
    /\ AtChild /\ CurrentTag = lit("AccountingSupplierParty")
    /\ Store(lit("AccountingSupplierParty"),
             merged_party(sol.d[lit("AccountingSupplierParty")],
                          parseAccountingParty(xml_root[idx])))

RunAccountingSupplierParty ==
    /\ AtChild /\ CurrentTag = lit("AccountingSupplierParty")
    /\ Store(lit("AccountingSupplierParty"), parseAccountingParty(xml_root[idx]))

RunAccountingCustomerParty ==
    /\ AtChild /\ CurrentTag = lit("AccountingCustomerParty")
    /\ Store(lit("AccountingCustomerParty"), parseAccountingParty(xml_root[idx]))

RunInvoicePeriod ==
    /\ AtChild /\ CurrentTag = lit("InvoicePeriod")
    /\ Store(lit("InvoicePeriod"), parseInvoicePeriod(xml_root[idx]))

\* the branch keeping the attachment found so far when the element has none
RunAdditionalDocumentReference_keeping ==
    /\ AtChild /\ CurrentTag = lit("AdditionalDocumentReference")
    /\ LET pdf == parsePdfDocument(xml_root[idx])
       IN  IF IsRaise(pdf) THEN Fail(pdf)
           ELSE Store(lit("PdfDocument"),
                      IF pdf = None /\ lit("PdfDocument") \in DOMAIN sol.d
                      THEN sol.d[lit("PdfDocument")] ELSE pdf)

RunAdditionalDocumentReference ==
    /\ AtChild /\ CurrentTag = lit("AdditionalDocumentReference")
    /\ LET pdf == parsePdfDocument(xml_root[idx])
       IN  IF IsRaise(pdf) THEN Fail(pdf) ELSE Store(lit("PdfDocument"), pdf)

\* the note after the text of one more Note element
note_append(note, text) ==
    IF text # None
    THEN IF ~truthy(note) THEN text ELSE Str(note.s \o <<"\n">> \o text.s)
    ELSE note

RunNote ==
    /\ AtChild /\ CurrentTag = lit("Note")
    /\ Store(lit("Note"), note_append(sol.d[lit("Note")], xml_root[idx].text))

\* any other child: its text under its stripped tag
RunOther ==
    /\ AtChild /\ CurrentTag \notin HandledTags(variant)
    /\ Store(CurrentTag, xml_root[idx].text)

\* the loop is over: the accumulator is projected and returned
RunReturn ==
    /\ pc = "walk" /\ idx > Len(xml_root)
    /\ result' = _post_process_result_dict(variant, sol)
    /\ pc' = IF IsRaise(result') THEN "failed" ELSE "done"
    /\ UNCHANGED <<first, variant, xml_root, idx, sol>>
    /\ UNCHANGED not_w

Next ==
    \/ RunBegin
    \/ RunUBLExtensions
    \/ RunInvoiceLine
    \/ RunLegalMonetaryTotal
    \/ RunTaxTotal
    \/ RunPaymentMeans
    \/ RunAccountingSupplierParty
    \/ RunAccountingCustomerParty
    \/ RunInvoicePeriod
    \/ RunAdditionalDocumentReference
    \/ RunNote
    \/ RunOther
    \/ RunReturn

Spec == Init /\ [][Next]_vars

\* Run on the documents made of one kind of section (tax totals, document
\* references, extension blocks, the children of a trading-party section),
\* and on those of at most MaxSections children of any kind
InitSections ==
    /\ variant \in Variants
    /\ xml_root \in DocSet(MaxSections) \cup TaxDocSet(MaxTaxTotals)
                      \cup AttachmentDocSet(MaxAttachments)
                      \cup ExtensionDocSet(variant, MaxExtensions)
                      \cup SectionDocSet(MaxPartyChildren)
    /\ idx = 0 /\ sol = None /\ pc = "constructed" /\ result = None
    /\ first = None
    /\ IdleL /\ IdleT /\ IdleP /\ IdleD /\ IdleC /\ IdleE /\ IdleX

SpecSections == InitSections /\ [][Next]_vars

---------------------------------------------------------------------------
(* The same document parsed a second time.                                 *)

InitTwice ==
    /\ variant \in Variants
    /\ xml_root \in DocSet(MaxTwice)
    /\ idx = 0 /\ sol = None /\ pc = "constructed" /\ result = None
    /\ first = None
    /\ IdleL /\ IdleT /\ IdleP /\ IdleD /\ IdleC /\ IdleE /\ IdleX

\* Run is called again on the same parser: the instance is as the first run
\* left it
RunAgain ==
    /\ pc \in {"done", "failed"} /\ first = None
    /\ first' = result
    /\ result' = None
    /\ pc' = "constructed"
    /\ UNCHANGED <<variant, xml_root, idx, sol>>
    /\ UNCHANGED not_w

\* a fresh parser is constructed on the same document
ConstructAgain ==
    /\ pc \in {"done", "failed"} /\ first = None
    /\ first' = result
    /\ result' = None
    /\ idx' = 0 /\ sol' = None
    /\ pc' = "constructed"
    /\ UNCHANGED <<variant, xml_root>>
    /\ UNCHANGED not_w

NextTwice == Next \/ RunAgain \/ ConstructAgain

SpecTwice == InitTwice /\ [][NextTwice]_vars

---------------------------------------------------------------------------
(* Several parser instances, each on its own document, their Run calls     *)
(* interleaved step by step.                                               *)

\* the body of the loop of Run for the child elem: the accumulator after it,
\* or the exception a handler raised
Run_child(v, acc, elem) ==
    LET t == prettify_tag(elem.tag)
    IN  CASE t = lit("UBLExtensions") -> acc
          [] t = lit(LineTag(v)) ->
                 LET parsed == parseInvoiceLine(v, elem)
                 IN  IF IsRaise(parsed) THEN parsed
                     ELSE Dict(put(acc.d, lit("InvoiceLines"),
                                   List(Append(acc.d[lit("InvoiceLines")].l, parsed))))
          [] t = lit("LegalMonetaryTotal") -> Dict(put(acc.d, t, parseLegalMonetaryTotal(elem)))
          [] t = lit("TaxTotal") -> Dict(put(acc.d, t, parseTaxTotal(elem)))
          [] t = lit("PaymentMeans") -> Dict(put(acc.d, t, parsePaymentMeans(elem)))
          [] t = lit("AccountingSupplierParty") -> Dict(put(acc.d, t, parseAccountingParty(elem)))
          [] t = lit("AccountingCustomerParty") -> Dict(put(acc.d, t, parseAccountingParty(elem)))
          [] t = lit("InvoicePeriod") -> Dict(put(acc.d, t, parseInvoicePeriod(elem)))
          [] t = lit("AdditionalDocumentReference") ->
                 LET pdf == parsePdfDocument(elem)
                 IN  IF IsRaise(pdf) THEN pdf ELSE Dict(put(acc.d, lit("PdfDocument"), pdf))
          [] t = lit("Note") ->
                 Dict(put(acc.d, t, note_append(acc.d[lit("Note")], elem.text)))
          [] OTHER -> Dict(put(acc.d, t, elem.text))

\* the whole loop of Run over children, from the accumulator acc
RECURSIVE Run_loop(_, _, _)
Run_loop(v, acc, children) ==
    IF children = <<>> \/ IsRaise(acc) THEN acc
    ELSE Run_loop(v, Run_child(v, acc, Head(children)), Tail(children))

\* Run of the variant v on the document doc, all by itself: what it returns,
\* or the exception it raises
RunAlone(v, doc) ==
    LET walked == Run_loop(v, SeededSol, doc)
    IN  IF IsRaise(walked) THEN walked ELSE _post_process_result_dict(v, walked)

\* the documents of the instances
ParDocs ==
    {<<SupplierParty, CustomerParty,
       LineOf("Invoice", <<"1">>, Str(<<"K", "O", "M">>), Str(<<"H", "R", "K">>)),
       cbc("Note", Str(<<"A">>))>>,
     <<SupplierParty, CustomerParty,
       LineOf("CreditNote", <<"3">>, Absent, Str(<<"H", "R", "K">>))>>,
     <<SupplierParty>>}

Parsers == 1..NumParsers

\* sol = defaultdict(dict): the Run call of instance i creates an accumulator
\* of its own
new_sol_shared(i) == 1

new_sol(i) == i

InitPar ==
    /\ parsers \in [Parsers ->
           {[variant |-> v, xml_root |-> d, idx |-> 0, pc |-> "constructed",
             result |-> None, sol_ref |-> 0] : v \in Variants, d \in ParDocs}]
    /\ heap = [a \in Parsers |-> None]
    /\ IdleW /\ IdleL /\ IdleT /\ IdleP /\ IdleD /\ IdleE /\ IdleX

\* instance i enters Run: it creates and seeds its accumulator
ParRunBegin(i) ==
    /\ parsers[i].pc = "constructed"
    /\ heap' = [heap EXCEPT ![new_sol(i)] = SeededSol]
    /\ parsers' = [parsers EXCEPT ![i].sol_ref = new_sol(i), ![i].idx = 1,
                                   ![i].pc = "walk"]
    /\ UNCHANGED not_c

\* instance i handles the next child of its root
ParRunChild(i) ==
    LET p     == parsers[i]
        after == Run_child(p.variant, heap[p.sol_ref], p.xml_root[p.idx])
    IN  /\ p.pc = "walk" /\ p.idx <= Len(p.xml_root)
        /\ IF IsRaise(after)
           THEN /\ parsers' = [parsers EXCEPT ![i].pc = "failed", ![i].result = after]
                /\ UNCHANGED heap
           ELSE /\ heap' = [heap EXCEPT ![p.sol_ref] = after]
                /\ parsers' = [parsers EXCEPT ![i].idx = p.idx + 1]
        /\ UNCHANGED not_c

\* the loop of instance i is over: it projects its accumulator and returns
ParRunReturn(i) ==
    LET p   == parsers[i]
        res == _post_process_result_dict(p.variant, heap[p.sol_ref])
    IN  /\ p.pc = "walk" /\ p.idx > Len(p.xml_root)
        /\ parsers' = [parsers EXCEPT ![i].result = res,
                           ![i].pc = IF IsRaise(res) THEN "failed" ELSE "done"]
        /\ UNCHANGED heap
        /\ UNCHANGED not_c

NextPar == \E i \in Parsers : ParRunBegin(i) \/ ParRunChild(i) \/ ParRunReturn(i)

SpecPar == InitPar /\ [][NextPar]_vars

---------------------------------------------------------------------------
(* Calls parser(xml_root) on one parser instance, interleaved step by step *)
(* (__call__ stores its argument in self.xml_root, then runs Run).         *)

Callers == 1..NumCallers

InitCall ==
    /\ self_xml_root \in ParDocs
    /\ \E v \in Variants :
         callers \in [Callers -> {[variant |-> v, xml_root |-> d, pc |-> "called",
                                   children |-> <<>>, idx |-> 0, sol |-> None,
                                   result |-> None] : d \in ParDocs}]
    /\ IdleW /\ IdleL /\ IdleT /\ IdleP /\ IdleD /\ IdleC /\ IdleE
    /\ IdleA /\ IdleU

\* self.xml_root = xml_root
CallStoreRoot(i) ==
    /\ callers[i].pc = "called"
    /\ self_xml_root' = callers[i].xml_root
    /\ callers' = [callers EXCEPT ![i].pc = "run"]
    /\ UNCHANGED not_k

\* return self.Run(): the accumulator is seeded and the loop starts over the
\* children of what self.xml_root is now
CallRunBegin(i) ==
    /\ callers[i].pc = "run"
    /\ callers' = [callers EXCEPT ![i].sol = SeededSol,
                                  ![i].children = self_xml_root,
                                  ![i].idx = 1,
                                  ![i].pc = "walk"]
    /\ UNCHANGED self_xml_root
    /\ UNCHANGED not_k

\* one pass of the loop of Run
CallRunChild(i) ==
    /\ callers[i].pc = "walk" /\ callers[i].idx <= Len(callers[i].children)
    /\ LET c == callers[i]
           after == Run_child(c.variant, c.sol, c.children[c.idx])
       IN  callers' = IF IsRaise(after)
                      THEN [callers EXCEPT ![i].pc = "failed", ![i].result = after]
                      ELSE [callers EXCEPT ![i].sol = after, ![i].idx = c.idx + 1]
    /\ UNCHANGED self_xml_root
    /\ UNCHANGED not_k

\* the loop is over: the projection is returned, or raises
CallRunReturn(i) ==
    /\ callers[i].pc = "walk" /\ callers[i].idx > Len(callers[i].children)
    /\ LET c == callers[i]
           res == _post_process_result_dict(c.variant, c.sol)
       IN  callers' = [callers EXCEPT ![i].result = res,
                                      ![i].pc = IF IsRaise(res) THEN "failed" ELSE "done"]
    /\ UNCHANGED self_xml_root
    /\ UNCHANGED not_k

NextCall ==
    \/ \E i \in Callers : CallStoreRoot(i)
    \/ \E i \in Callers : CallRunBegin(i)
    \/ \E i \in Callers : CallRunChild(i)
    \/ \E i \in Callers : CallRunReturn(i)

SpecCall == InitCall /\ [][NextCall]_vars

---------------------------------------------------------------------------
(* One PaymentMeans section: the branch of Run that stores it, then the    *)
(* header projected from the accumulator.                                  *)

IdAlphabet == {"H", "2", " ", "\t"}

\* the payment ids of at most n characters, and the one of the documentation
PaymentIds(n) ==
    {Str(s) : s \in SeqsUpTo(IdAlphabet, n)} \cup {Str(<<"H", "R", "0", "2", " ", "3">>)}

\* no PaymentMeans element, or one with no PaymentID, an empty PaymentID or a
\* payment id of at most n characters
PaymentMeansSet(n) ==
    {Absent} \cup
    {cac("PaymentMeans",
         opt("PaymentID", text)
         \o <<cac("PayeeFinancialAccount", <<cbc("ID", Str(<<"I", "B">>))>>)>>)
        : text \in {Absent, None} \cup PaymentIds(n)}

InitPayment ==
    /\ pm_elem \in PaymentMeansSet(MaxIdLen)
    /\ payment_sol = None /\ payment_header = None /\ ppc = "start"
    /\ IdleW /\ IdleL /\ IdleT /\ IdleD /\ IdleC /\ IdleE /\ IdleX

\* Run over a document that holds the section, or does not
WalkPaymentMeans ==
    /\ ppc = "start"
    /\ payment_sol' =
           IF pm_elem = Absent THEN SeededSol
           ELSE Dict(put(SeededSol.d, lit("PaymentMeans"), parsePaymentMeans(pm_elem)))
    /\ ppc' = "walked"
    /\ UNCHANGED <<pm_elem, payment_header>>
    /\ UNCHANGED not_p

\* the invoice_header of _post_process_result_dict
ProjectPayment ==
    /\ ppc = "walked"
    /\ payment_header' = invoice_header(payment_sol)
    /\ ppc' = "projected"
    /\ UNCHANGED <<pm_elem, payment_sol>>
    /\ UNCHANGED not_p

NextPayment == WalkPaymentMeans \/ ProjectPayment

SpecPayment == InitPayment /\ [][NextPayment]_vars

---------------------------------------------------------------------------
(* One call of parsePdfDocument.                                           *)

TextAlphabet == {"A", "B", "=", " ", "\n"}

\* the texts of an embedded binary object: none, those of at most n
\* characters, and the one of the documentation
EmbeddedTexts(n) ==
    {None} \cup {Str(s) : s \in SeqsUpTo(TextAlphabet, n)}
    \cup {Str(<<"A", "B", "=", "=", " ", " ", "\n">>)}

\* the AdditionalDocumentReference elements: without Attachment, with an
\* Attachment that has no embedded object, and with an embedded object
DocRefSet(n) ==
    {cac("AdditionalDocumentReference", <<cbc("ID", Str(<<"1">>))>>),
     cac("AdditionalDocumentReference", <<cbc("ID", Str(<<"1">>)), cac("Attachment", <<>>)>>)}
    \cup
    {cac("AdditionalDocumentReference",
         <<cbc("ID", Str(<<"1">>)),
           cac("Attachment", <<cbc("EmbeddedDocumentBinaryObject", text)>>)>>)
        : text \in EmbeddedTexts(n)}

InitPdf ==
    /\ doc_ref \in DocRefSet(MaxTextLen)
    /\ pdf_out = None /\ dpc = "start"
    /\ IdleW /\ IdleL /\ IdleT /\ IdleP /\ IdleC /\ IdleE /\ IdleX

\* self.parsePdfDocument(elem)
ParsePdfDocument ==
    /\ dpc = "start"
    /\ pdf_out' = parsePdfDocument(doc_ref)
    /\ dpc' = IF IsRaise(pdf_out') THEN "raised" ELSE "returned"
    /\ UNCHANGED doc_ref
    /\ UNCHANGED not_d

NextPdf == ParsePdfDocument

SpecPdf == InitPdf /\ [][NextPdf]_vars

---------------------------------------------------------------------------
(* EmaticaService: authenticate and the get_* methods.                     *)

\* the keys of self.resources, one per get_* method
GetMethods ==
    {"GetDjelatnik", "GetDjelatnikOIB", "GetSkolskeGodine", "GetOdjeljenja",
     "GetUcenici", "GetUcenikOIB", "GetRazredi"}

\* the configurations: every URL given, or one missing
ResourceMaps ==
    {GetMethods, GetMethods \ {"GetDjelatnik"}, GetMethods \ {"GetUcenikOIB"}}

\* what auth_resp.json() can be: a token, null, an empty object, or the
\* object of an error message
AuthBodies ==
    {Str(<<"jwt1">>), Str(<<"jwt2">>), None, Dict(EmptyMap),
     Dict(put(EmptyMap, lit("message"), Str(<<"denied">>)))}

\* what requests.post or auth_resp.json() can raise
AuthErrors == {"Timeout", "JSONDecodeError"}

Returned == [py |-> "returned"]

InitEmatica ==
    /\ auth_jwt = None
    /\ auth_ts = Absent
    /\ resources \in ResourceMaps
    /\ stack = <<>>
    /\ sent = None /\ last_auth = None /\ outcome = None
    /\ calls = 0 /\ now = 0
    /\ IdleW /\ IdleL /\ IdleT /\ IdleP /\ IdleD /\ IdleC /\ IdleX

Top == stack[Len(stack)]
SetTop(f) == [stack EXCEPT ![Len(stack)] = f]
Pop == SubSeq(stack, 1, Len(stack) - 1)

\* a get_* method is entered: if not self.auth_jwt: self.authenticate()
Enter(m, nested) ==
    [method |-> m,
     at |-> IF truthy(auth_jwt) THEN "headers" ELSE "authenticate",
     auth_headers |-> None, authed |-> FALSE, nested |-> nested]

\* the user calls get_*; get_odjeljenja, and get_ucenici without a yearID,
\* fetch the school years first
CallGet(m, yearID) ==
    /\ stack = <<>> /\ calls < MaxCalls
    /\ stack' = <<Enter(m, m = "GetOdjeljenja" \/ (m = "GetUcenici" /\ ~yearID))>>
    /\ calls' = calls + 1
    /\ outcome' = None
    /\ UNCHANGED <<auth_jwt, auth_ts, resources, sent, last_auth, now>>
    /\ UNCHANGED not_e

\* the user calls authenticate, to refresh the JWT
CallAuthenticate ==
    /\ stack = <<>> /\ calls < MaxCalls
    /\ stack' = <<[method |-> "authenticate", at |-> "authenticate",
                   auth_headers |-> None, authed |-> FALSE, nested |-> FALSE]>>
    /\ calls' = calls + 1
    /\ outcome' = None
    /\ UNCHANGED <<auth_jwt, auth_ts, resources, sent, last_auth, now>>
    /\ UNCHANGED not_e

\* the request of authenticate
AuthRequest ==
    [kind |-> "auth", method |-> Top.method, Authorization |-> None, stored |-> auth_jwt]

\* authenticate gets the body auth_json and returns
AuthenticateReturns(auth_json) ==
    /\ stack # <<>> /\ Top.at = "authenticate"
    /\ sent' = AuthRequest
    /\ now' = now + 1
    /\ IF truthy(auth_json)
       THEN auth_jwt' = auth_json /\ auth_ts' = now'
       ELSE UNCHANGED <<auth_jwt, auth_ts>>
    /\ last_auth' = [body |-> auth_json, ended |-> "returned", time |-> now']
    /\ IF Top.method = "authenticate"
       THEN stack' = Pop /\ outcome' = Returned
       ELSE /\ stack' = SetTop([Top EXCEPT !.at = "headers", !.authed = TRUE])
            /\ UNCHANGED outcome
    /\ UNCHANGED <<resources, calls>>
    /\ UNCHANGED not_e

\* the request or the decoding of its body raises: authenticate logs and
\* raises again, and no caller catches
AuthenticateRaises(e) ==
    /\ stack # <<>> /\ Top.at = "authenticate"
    /\ sent' = AuthRequest
    /\ now' = now + 1
    /\ last_auth' = [body |-> Raise(e), ended |-> "raised", time |-> now']
    /\ stack' = <<>>
    /\ outcome' = Raise(e)
    /\ UNCHANGED <<auth_jwt, auth_ts, resources, calls>>
    /\ UNCHANGED not_e

\* auth_headers = self._get_auth_headers()
GetAuthHeaders ==
    /\ stack # <<>> /\ Top.at = "headers"
    /\ stack' = SetTop([Top EXCEPT !.auth_headers = [Authorization |-> auth_jwt],
                                   !.at = IF Top.nested THEN "nested" ELSE "url"])
    /\ UNCHANGED <<auth_jwt, auth_ts, resources, sent, last_auth, outcome, calls, now>>
    /\ UNCHANGED not_e

\* year_resp = self.get_skolske_godine(code, subcode)
CallNested ==
    /\ stack # <<>> /\ Top.at = "nested"
    /\ stack' = Append(SetTop([Top EXCEPT !.at = "url"]), Enter("GetSkolskeGodine", FALSE))
    /\ UNCHANGED <<auth_jwt, auth_ts, resources, sent, last_auth, outcome, calls, now>>
    /\ UNCHANGED not_e

\* self.resources has no URL for the method
ResourceMissing ==
    /\ stack # <<>> /\ Top.at = "url" /\ Top.method \notin resources
    /\ stack' = <<>>
    /\ outcome' = Raise(IF Top.method = "GetUcenikOIB" THEN "TypeError" ELSE "ValueError")
    /\ UNCHANGED <<auth_jwt, auth_ts, resources, sent, last_auth, calls, now>>
    /\ UNCHANGED not_e

\* the request of a get_* method
ResourceRequest ==
    [kind |-> "resource", method |-> Top.method,
     Authorization |-> Top.auth_headers.Authorization, stored |-> auth_jwt]

\* requests.get(url, headers=auth_headers, ...) answers and the method returns
ResourceReturns ==
    /\ stack # <<>> /\ Top.at = "url" /\ Top.method \in resources
    /\ sent' = ResourceRequest
    /\ now' = now + 1
    /\ stack' = Pop
    /\ outcome' = IF Len(stack) = 1 THEN Returned ELSE outcome
    /\ UNCHANGED <<auth_jwt, auth_ts, resources, last_auth, calls>>
    /\ UNCHANGED not_e

\* the request, or reading its body, raises
ResourceRaises ==
    /\ stack # <<>> /\ Top.at = "url" /\ Top.method \in resources
    /\ sent' = ResourceRequest
    /\ now' = now + 1
    /\ stack' = <<>>
    /\ outcome' = Raise("KeyError")
    /\ UNCHANGED <<auth_jwt, auth_ts, resources, last_auth, calls>>
    /\ UNCHANGED not_e

NextEmatica ==
    \/ \E m \in GetMethods, yearID \in BOOLEAN : CallGet(m, yearID)
    \/ CallAuthenticate
    \/ \E auth_json \in AuthBodies : AuthenticateReturns(auth_json)
    \/ \E e \in AuthErrors : AuthenticateRaises(e)
    \/ GetAuthHeaders
    \/ CallNested
    \/ ResourceMissing
    \/ ResourceReturns
    \/ ResourceRaises

SpecEmatica == InitEmatica /\ [][NextEmatica]_vars

---------------------------------------------------------------------------
(* EmaticaService.async_get_ucenici_oib: the fetch tasks run side by side. *)

\* the OIBs asked for
Oibs == {"02361140078", "43708356074"}

\* the lists oib_lst of at most n OIBs
OibLists(n) == SeqsUpTo(Oibs, n)

\* what aiohttp can raise in a fetch
FetchErrors == {"ClientResponseError", "TimeoutError"}

\* await response.json() of the request to url
response_json(url) == [py |-> "response", url |-> url]

\* a fetch ends: with the body of its response, or raising
FetchResults(url) == {response_json(url)} \cup {Raise(e) : e \in FetchErrors}

InitAsync ==
    /\ oib_lst \in OibLists(MaxOibs)
    /\ apc = "start"
    /\ async_headers = None /\ tasks = <<>> /\ completed = <<>>
    /\ async_ret = None
    /\ \/ auth_jwt = None /\ auth_ts = Absent
       \/ auth_jwt = Str(<<"jwt1">>) /\ auth_ts = 0
    /\ resources \in ResourceMaps
    /\ stack = <<>>
    /\ sent = None /\ last_auth = None /\ outcome = None
    /\ calls = 0 /\ now = 0
    /\ IdleW /\ IdleL /\ IdleT /\ IdleP /\ IdleD /\ IdleC /\ IdleU /\ IdleK

\* if not oib_lst: return []
AsyncEmpty ==
    /\ apc = "start" /\ oib_lst = <<>>
    /\ apc' = "returned"
    /\ async_ret' = List(<<>>)
    /\ UNCHANGED <<oib_lst, async_headers, tasks, completed>>
    /\ UNCHANGED evars
    /\ UNCHANGED not_a

\* if not self.auth_jwt: self.authenticate(), which returns
AsyncAuthenticateReturns(auth_json) ==
    /\ apc = "start" /\ oib_lst # <<>> /\ ~truthy(auth_jwt)
    /\ sent' = [kind |-> "auth", method |-> "async_get_ucenici_oib",
                Authorization |-> None, stored |-> auth_jwt]
    /\ now' = now + 1
    /\ IF truthy(auth_json)
       THEN auth_jwt' = auth_json /\ auth_ts' = now'
       ELSE UNCHANGED <<auth_jwt, auth_ts>>
    /\ last_auth' = [body |-> auth_json, ended |-> "returned", time |-> now']
    /\ apc' = "authenticated"
    /\ UNCHANGED <<oib_lst, async_headers, tasks, completed, async_ret>>
    /\ UNCHANGED <<resources, stack, outcome, calls>>
    /\ UNCHANGED not_a

\* self.authenticate() raises, and so does the call
AsyncAuthenticateRaises(e) ==
    /\ apc = "start" /\ oib_lst # <<>> /\ ~truthy(auth_jwt)
    /\ sent' = [kind |-> "auth", method |-> "async_get_ucenici_oib",
                Authorization |-> None, stored |-> auth_jwt]
    /\ now' = now + 1
    /\ last_auth' = [body |-> Raise(e), ended |-> "raised", time |-> now']
    /\ apc' = "raised"
    /\ async_ret' = Raise(e)
    /\ UNCHANGED <<oib_lst, async_headers, tasks, completed>>
    /\ UNCHANGED <<auth_jwt, auth_ts, resources, stack, outcome, calls>>
    /\ UNCHANGED not_a

\* the call is past its authentication
AsyncAuthenticated ==
    /\ oib_lst # <<>>
    /\ \/ apc = "start" /\ truthy(auth_jwt)
       \/ apc = "authenticated"

\* self.resources.get("GetUcenikOIB") + str(oib)
url_of(oib) == <<"GetUcenikOIB", oib>>

\* auth_headers is built, the urls are, and fetch_all creates one task per
\* url within one session, whose headers are auth_headers
AsyncFetchAll ==
    /\ AsyncAuthenticated
    /\ "GetUcenikOIB" \in resources
    /\ async_headers' = [Authorization |-> auth_jwt]
    /\ tasks' = [i \in 1..Len(oib_lst) |->
                    [url |-> url_of(oib_lst[i]),
                     headers |-> async_headers',
                     result |-> None]]
    /\ apc' = "gather"
    /\ UNCHANGED <<oib_lst, completed, async_ret>>
    /\ UNCHANGED evars
    /\ UNCHANGED not_a

\* self.resources has no URL: None + str(oib) raises
AsyncUrlsRaise ==
    /\ AsyncAuthenticated
    /\ "GetUcenikOIB" \notin resources
    /\ async_headers' = [Authorization |-> auth_jwt]
    /\ apc' = "raised"
    /\ async_ret' = Raise("TypeError")
    /\ UNCHANGED <<oib_lst, tasks, completed>>
    /\ UNCHANGED evars
    /\ UNCHANGED not_a

\* one of the running fetch tasks ends
FetchCompletes(i, r) ==
    /\ apc = "gather"
    /\ i \in 1..Len(tasks) /\ tasks[i].result = None
    /\ r \in FetchResults(tasks[i].url)
    /\ tasks' = [tasks EXCEPT ![i].result = r]
    /\ completed' = Append(completed, i)
    /\ now' = now + 1
    /\ sent' = [kind |-> "resource", method |-> "async_get_ucenici_oib",
                Authorization |-> tasks[i].headers.Authorization,
                stored |-> auth_jwt]
    /\ UNCHANGED <<oib_lst, apc, async_headers, async_ret>>
    /\ UNCHANGED <<auth_jwt, auth_ts, resources, stack, last_auth, outcome, calls>>
    /\ UNCHANGED not_a

\* asyncio.gather(*tasks, return_exceptions=True) in the order the tasks
\* completed
gather_as_completed(ts, order) == [k \in 1..Len(order) |-> ts[order[k]].result]

\* asyncio.gather(*tasks, return_exceptions=True): the results, and the
\* exceptions raised, in the order of the tasks
gather(ts, order) == [i \in 1..Len(ts) |-> ts[i].result]

\* [r for r in resp if not isinstance(r, Exception)]
not_exceptions(resp) == SelectSeq(resp, LAMBDA r : ~IsRaise(r))

\* every task has ended: the call returns resp_json
AsyncReturn ==
    /\ apc = "gather"
    /\ \A i \in 1..Len(tasks) : tasks[i].result # None
    /\ async_ret' = List(not_exceptions(gather(tasks, completed)))
    /\ apc' = "returned"
    /\ UNCHANGED <<oib_lst, async_headers, tasks, completed>>
    /\ UNCHANGED evars
    /\ UNCHANGED not_a

NextAsync ==
    \/ AsyncEmpty
    \/ \E auth_json \in AuthBodies : AsyncAuthenticateReturns(auth_json)
    \/ \E e \in AuthErrors : AsyncAuthenticateRaises(e)
    \/ AsyncFetchAll
    \/ AsyncUrlsRaise
    \/ \E i \in 1..Len(tasks) : \E r \in FetchResults(tasks[i].url) : FetchCompletes(i, r)
    \/ AsyncReturn

SpecAsync == InitAsync /\ [][NextAsync]_vars

---------------------------------------------------------------------------
(* MojEracun.update_document_processing_status (edi_invoice/eracun.py).    *)

PyInt(n) == [py |-> "int", n |-> n]

Digits == <<"0", "1", "2", "3", "4", "5", "6", "7", "8", "9">>

RECURSIVE decimal(_)
\* the decimal digits of a natural number
decimal(n) ==
    IF n < 10 THEN <<Digits[n + 1]>>
    ELSE Append(decimal(n \div 10), Digits[(n % 10) + 1])

\* str(v) of a str, an int that is not negative, or None
py_str(v) ==
    CASE v.py = "str" -> v.s
      [] v.py = "int" -> decimal(v.n)
      [] OTHER        -> <<"N", "o", "n", "e">>

\* the keys of documentProcessStatus in conf.json: the statuses the
\* docstring lists, or some of them only
ProcessStatusConfigs ==
    {{<<"0">>, <<"1">>, <<"2">>, <<"3">>, <<"4">>, <<"9", "9">>},
     {<<"0">>, <<"4">>, <<"9", "9">>}}

\* the arguments invoice_id, status_id and reject_reason
InvoiceIds == {PyInt(394167), PyInt(20)}
StatusIds ==
    {Str(<<"0">>), Str(<<"1">>), Str(<<"4">>), Str(<<"9", "9">>), Str(<<"5">>),
     Str(<<>>), Str(<<"0", "1">>), PyInt(1), PyInt(4), PyInt(99), PyInt(9), None}
RejectReasons == {Str(<<>>), Str(<<"d", "u", "p">>), Str(<<" ">>), None}

\* self._credentials()
_credentials ==
    dict_display(<<<<"Username", Str(lit("user"))>>,
                   <<"Password", Str(lit("passwd"))>>,
                   <<"CompanyID", Str(lit("company_oib"))>>,
                   <<"SoftwareId", Str(lit("software_id"))>>>>)

\* json.dumps(req) of a dict of str, int and None values: a JSON object
\* with the keys of req, a str as a JSON string, an int as a JSON number
\* and None as null
json_dumps(req) ==
    [json |-> "object",
     members |-> [k \in DOMAIN req |->
                    CASE req[k].py = "str" -> [json |-> "string", s |-> req[k].s]
                      [] req[k].py = "int" -> [json |-> "number", n |-> req[k].n]
                      [] OTHER             -> [json |-> "null"]]]

\* the status that needs a reason, taken to be "4" as the docstring has it
is_rejected_4(status_id_str) == status_id_str = <<"4">>

\* status_id_str == "1"
is_rejected(status_id_str) == status_id_str = <<"1">>

InitUpdate ==
    /\ update_args \in [invoice_id : InvoiceIds, status_id : StatusIds,
                        reject_reason : RejectReasons]
    /\ doc_process_status \in ProcessStatusConfigs
    /\ posted = <<>>
    /\ upc = "start"
    /\ update_out = None
    /\ IdleW /\ IdleL /\ IdleT /\ IdleP /\ IdleD /\ IdleC /\ IdleE
    /\ IdleA /\ IdleK

status_id_str == py_str(update_args.status_id)

\* raise ValueError("unsupported document process status: ...")
UpdateUnsupported ==
    /\ upc = "start"
    /\ status_id_str \notin doc_process_status
    /\ upc' = "raised"
    /\ update_out' = Raise("ValueError")
    /\ UNCHANGED <<update_args, doc_process_status, posted>>
    /\ UNCHANGED not_u

\* raise ValueError("status REJECTED must be used with additional
\* 'RejectReason' field")
UpdateRejectedWithoutReason ==
    /\ upc = "start"
    /\ status_id_str \in doc_process_status
    /\ is_rejected(status_id_str) /\ ~truthy(update_args.reject_reason)
    /\ upc' = "raised"
    /\ update_out' = Raise("ValueError")
    /\ UNCHANGED <<update_args, doc_process_status, posted>>
    /\ UNCHANGED not_u

\* the req that is sent
update_req ==
    LET req0 == put(_credentials.d, lit("ElectronicId"), update_args.invoice_id)
        req1 == IF is_rejected(status_id_str)
                THEN put(req0, lit("RejectReason"), update_args.reject_reason)
                ELSE req0
    IN  put(req1, lit("StatusId"), update_args.status_id)

UpdateValid ==
    /\ upc = "start"
    /\ status_id_str \in doc_process_status
    /\ ~(is_rejected(status_id_str) /\ ~truthy(update_args.reject_reason))

\* requests.post(self._url(endpoint), data=json.dumps(req), ...) answers
\* and the call returns response.json()
UpdatePosts ==
    /\ UpdateValid
    /\ posted' = Append(posted, [method |-> "POST",
                                 endpoint |-> "updateDocumentStatus",
                                 data |-> json_dumps(update_req)])
    /\ upc' = "returned"
    /\ update_out' = [py |-> "response"]
    /\ UNCHANGED <<update_args, doc_process_status>>
    /\ UNCHANGED not_u

\* requests.post or response.json() raises
UpdatePostRaises(e) ==
    /\ UpdateValid
    /\ posted' = Append(posted, [method |-> "POST",
                                 endpoint |-> "updateDocumentStatus",
                                 data |-> json_dumps(update_req)])
    /\ upc' = "raised"
    /\ update_out' = Raise(e)
    /\ UNCHANGED <<update_args, doc_process_status>>
    /\ UNCHANGED not_u

NextUpdate ==
    \/ UpdateUnsupported
    \/ UpdateRejectedWithoutReason
    \/ UpdatePosts
    \/ \E e \in {"ConnectionError", "JSONDecodeError"} : UpdatePostRaises(e)

SpecUpdate == InitUpdate /\ [][NextUpdate]_vars

---------------------------------------------------------------------------
(* What the documents say, read off the element tree itself.               *)

\* the local name of an element of a generated document
LocalName(e) == e.tag[Len(e.tag)]

ChildrenNamed(children, name) == SelectSeq(children, LAMBDA c : LocalName(c) = name)

HasChild(children, name) == ChildrenNamed(children, name) # <<>>

\* the last child called name
LastChild(children, name) ==
    ChildrenNamed(children, name)[Len(ChildrenNamed(children, name))]

\* the text of the last child called name, Absent when there is none
LastText(children, name) ==
    IF HasChild(children, name) THEN LastChild(children, name).text ELSE Absent

\* the children of the element reached from children along path, <<>> when
\* an element of the path is missing
RECURSIVE Under(_, _)
Under(children, path) ==
    IF path = <<>> THEN children
    ELSE IF HasChild(children, Head(path))
    THEN Under(LastChild(children, Head(path)).children, Tail(path))
    ELSE <<>>

HasPath(children, path) ==
    \A n \in 1..Len(path) :
        HasChild(Under(children, SubSeq(path, 1, n - 1)), path[n])

\* Item/ClassifiedTaxCategory/field of a line
ItemTax(line, name) ==
    LastText(Under(line.children, <<"Item", "ClassifiedTaxCategory">>), name)

\* TaxTotal/TaxSubtotal/TaxCategory/field of a line
LineTax(line, name) ==
    LastText(Under(line.children, <<"TaxTotal", "TaxSubtotal", "TaxCategory">>), name)

orNone(text) == IF text = Absent THEN None ELSE text

\* a field of a record of the output
field(rec, name) == rec.d[lit(name)]

\* some field of the record holds the value
Carries(rec, value) == \E k \in DOMAIN rec.d : rec.d[k] = value

HasPrefix(t, ns) == Len(t) >= Len(ns) /\ SubSeq(t, 1, Len(ns)) = ns

KnownPrefix(t) == \E i \in 1..Len(ns_filter) : HasPrefix(t, ns_filter[i])

\* the chunks an XML local name can be made of: those without a brace
IsLocalName(L) ==
    \A i \in 1..Len(L) : L[i] \in {"Common", "Extension", "Basic", "Aggregate", "ID"}

\* every quantity and amount of every top-level line has its attribute, and
\* every embedded binary object has a text: nothing the schema requires is missing
SchemaComplete(doc) ==
    /\ \A i \in 1..Len(doc) :
           LocalName(doc[i]) \in {"InvoiceLine", "CreditNoteLine"} =>
               \A j \in 1..Len(doc[i].children) :
                   LET c == doc[i].children[j]
                   IN  /\ LocalName(c) \in {"InvoicedQuantity", "CreditedQuantity"}
                           => "unitCode" \in DOMAIN c.attrib
                       /\ LocalName(c) = "LineExtensionAmount"
                           => "currencyID" \in DOMAIN c.attrib
    /\ \A i \in 1..Len(doc) :
           LocalName(doc[i]) = "AdditionalDocumentReference" =>
               \A j \in 1..Len(doc[i].children) :
                   \A k \in 1..Len(doc[i].children[j].children) :
                       doc[i].children[j].children[k].text # None

\* Run is over, one way or the other
Finished == pc \in {"done", "failed"}

\* every field of the record is null
AllNull(rec) == \A k \in DOMAIN rec.d : rec.d[k] = None

\* the texts of the elements called name among children, in document order
RECURSIVE TextsOf(_, _)
TextsOf(children, name) ==
    IF children = <<>> THEN <<>>
    ELSE (IF LocalName(Head(children)) = name THEN <<Head(children).text>> ELSE <<>>)
         \o TextsOf(Tail(children), name)

\* the strings of texts that are not empty, joined by one newline
RECURSIVE JoinLines(_)
JoinLines(texts) ==
    IF texts = <<>> THEN <<>>
    ELSE IF Head(texts) \in {None, Str(<<>>)} THEN JoinLines(Tail(texts))
    ELSE IF JoinLines(Tail(texts)) = <<>> THEN Head(texts).s
    ELSE Head(texts).s \o <<"\n">> \o JoinLines(Tail(texts))

header(res) == res.d[lit("invoice_header")]

---------------------------------------------------------------------------
(* The claims.                                                             *)

\* C1: absent optional sections never make a parse fail: Run returns a
\* ParsedDocument for every document that lacks any of its optional sections,
\* and a document with no AccountingSupplierParty (AccountingCustomerParty)
\* yields a supplier (customer) record whose twelve fields are all null.
C1_AbsentSectionsNeverFail ==
    (Finished /\ SchemaComplete(xml_root)) =>
        /\ pc = "done"
        /\ ~HasChild(xml_root, "AccountingSupplierParty")
               => AllNull(result.d[lit("supplier")])
        /\ ~HasChild(xml_root, "AccountingCustomerParty")
               => AllNull(result.d[lit("customer")])

\* C2: namespace stripping is idempotent: for every tag string t,
\* prettify_tag(prettify_tag(t)) = prettify_tag(t).
C2_Idempotent == tpc = "twice" => pretty2 = pretty

\* C3: prettify_tag removes a known namespace only as a prefix:
\* prettify_tag(ns + L) = L for each known namespace ns and local name L, and
\* a tag that does not begin with a known namespace is returned unchanged.
C3_PrefixOnly ==
    tpc \in {"once", "twice"} =>
        /\ \A i \in 1..Len(ns_filter) :
               LET ns == ns_filter[i]
               IN  (HasPrefix(tag, ns) /\ IsLocalName(SubSeq(tag, Len(ns) + 1, Len(tag))))
                       => pretty = SubSeq(tag, Len(ns) + 1, Len(tag))
        /\ ~KnownPrefix(tag) => pretty = tag

\* C4: the record of an Invoice line carries the quantity with its unit code
\* and the amount with its currency code: invoiced_quantity is the text of
\* InvoicedQuantity, and the unitCode attribute of InvoicedQuantity and the
\* currencyID attribute of LineExtensionAmount are fields of the record.
C4_LineCarriesUnitAndCurrency ==
    (variant = "Invoice" /\ lpc = "flat") =>
        /\ field(line_rec, "invoiced_quantity")
               = LastText(line_elem.children, "InvoicedQuantity")
        /\ Carries(line_rec, LastChild(line_elem.children, "InvoicedQuantity").attrib["unitCode"])
        /\ Carries(line_rec, LastChild(line_elem.children, "LineExtensionAmount").attrib["currencyID"])

TaxFields ==
    {<<"tax_category_id", "ID">>, <<"tax_percent", "Percent">>,
     <<"tax_exemption_reason", "TaxExemptionReason">>}

\* C5, as claimed: item-level and line-level tax data are never merged: when
\* the Item has a ClassifiedTaxCategory block all three tax fields come from it
\* (a field missing in it stays null); the line-level values are used only
\* when the Item has no such block.
C5_NeverMerged ==
    (variant = "Invoice" /\ lpc = "flat") =>
        \A f \in TaxFields :
            field(line_rec, f[1]) =
                IF HasPath(line_elem.children, <<"Item", "ClassifiedTaxCategory">>)
                THEN orNone(ItemTax(line_elem, f[2]))
                ELSE orNone(LineTax(line_elem, f[2]))

\* C5, amended: each of the three tax fields separately is the value of the
\* Item's ClassifiedTaxCategory when that value is present and not empty, and
\* the line-level TaxTotal/TaxSubtotal/TaxCategory value (null when there is
\* none) otherwise.
C5_PerFieldFallback ==
    (variant = "Invoice" /\ lpc = "flat") =>
        \A f \in TaxFields :
            field(line_rec, f[1]) =
                IF ItemTax(line_elem, f[2]) \notin {Absent, None, Str(<<>>)}
                THEN ItemTax(line_elem, f[2])
                ELSE orNone(LineTax(line_elem, f[2]))

\* C5 witness: a flattened line whose id is the item's and whose percent is
\* the line-level one, the item block having no Percent.
C5_Witness ==
    /\ variant = "Invoice" /\ lpc = "flat"
    /\ ItemTax(line_elem, "ID") = Str(<<"E">>)
    /\ ItemTax(line_elem, "Percent") = Absent
    /\ LineTax(line_elem, "Percent") = Str(<<"2", "5">>)
    /\ field(line_rec, "tax_category_id") = Str(<<"E">>)
    /\ field(line_rec, "tax_percent") = Str(<<"2", "5">>)

\* C6: an Invoice line whose Item carries a ClassifiedTaxCategory with a
\* non-empty ID and a non-empty Percent (the string "0" included) has these as
\* its tax_category_id and tax_percent, whatever the line-level TaxTotal holds.
C6_ItemTaxShadows ==
    (/\ variant = "Invoice" /\ lpc = "flat"
     /\ ItemTax(line_elem, "ID") \notin {Absent, None, Str(<<>>)}
     /\ ItemTax(line_elem, "Percent") \notin {Absent, None, Str(<<>>)}) =>
        /\ field(line_rec, "tax_category_id") = ItemTax(line_elem, "ID")
        /\ field(line_rec, "tax_percent") = ItemTax(line_elem, "Percent")

\* C6 witness: item-level id "E" and percent "0" kept beside a line-level
\* category with id "S" and percent "25".
C6_Witness ==
    /\ variant = "Invoice" /\ lpc = "flat"
    /\ ItemTax(line_elem, "ID") = Str(<<"E">>)
    /\ ItemTax(line_elem, "Percent") = Str(<<"0">>)
    /\ LineTax(line_elem, "ID") = Str(<<"S">>)
    /\ LineTax(line_elem, "Percent") = Str(<<"2", "5">>)
    /\ field(line_rec, "tax_category_id") = Str(<<"E">>)
    /\ field(line_rec, "tax_percent") = Str(<<"0">>)

\* C7: the accumulated note is the texts of the top-level Note elements that
\* have a non-empty text, in document order, joined by exactly one newline;
\* Note elements with an absent or empty text contribute nothing.
C7_NoteJoined ==
    (pc # "constructed" /\ idx > Len(xml_root)) =>
        sol.d[lit("Note")] = Str(JoinLines(TextsOf(xml_root, "Note")))

\* C8: the concatenated note is part of the projected output: for a document
\* with the two Note elements "A" and "B" the ParsedDocument returned by Run
\* has a note field equal to "A\nB".
C8_NoteProjected ==
    (pc = "done" /\ TextsOf(xml_root, "Note") = <<Str(<<"A">>), Str(<<"B">>)>>) =>
        \/ Carries(result, Str(<<"A", "\n", "B">>))
        \/ Carries(header(result), Str(<<"A", "\n", "B">>))

\* C9: Run on a CreditNote fills the header's document reference from
\* BillingReference/InvoiceDocumentReference/ID; for an Invoice document the
\* field is null.
C9_DocumentReference ==
    pc = "done" =>
        field(header(result), "document_reference") =
            IF /\ variant = "CreditNote"
               /\ HasPath(xml_root, <<"BillingReference", "InvoiceDocumentReference", "ID">>)
            THEN LastText(Under(xml_root, <<"BillingReference", "InvoiceDocumentReference">>),
                          "ID")
            ELSE None

\* C10: for every document parsed with the CreditNote variant the header's
\* due_date is the text of the top-level IssueDate (null when there is none),
\* whatever top-level DueDate the document holds and wherever it stands.
C10_DueDateIsIssueDate ==
    (pc = "done" /\ variant = "CreditNote") =>
        field(header(result), "due_date") = orNone(LastText(xml_root, "IssueDate"))

\* C10 witness: a credit note with an IssueDate and a different DueDate,
\* parsed, whose due_date is the IssueDate.
C10_Witness ==
    /\ pc = "done" /\ variant = "CreditNote"
    /\ LastText(xml_root, "IssueDate") = Str(<<"D", "1">>)
    /\ LastText(xml_root, "DueDate") = Str(<<"D", "2">>)
    /\ field(header(result), "due_date") = Str(<<"D", "1">>)

\* the fields of a party record and the path of each below Party
PartyPaths ==
    {<<"_id", <<"EndpointID">> >>,
     <<"_identificator", <<"PartyIdentification", "ID">> >>,
     <<"_name", <<"PartyName", "Name">> >>,
     <<"_street", <<"PostalAddress", "StreetName">> >>,
     <<"_city", <<"PostalAddress", "CityName">> >>,
     <<"_postal_code", <<"PostalAddress", "PostalZone">> >>,
     <<"_country_code", <<"PostalAddress", "Country", "IdentificationCode">> >>,
     <<"_company_id", <<"PartyTaxScheme", "CompanyID">> >>,
     <<"_tax_scheme_code", <<"PartyTaxScheme", "TaxScheme", "ID">> >>,
     <<"_registration_name", <<"PartyLegalEntity", "RegistrationName">> >>,
     <<"_telephone", <<"Contact", "Telephone">> >>,
     <<"_email", <<"Contact", "ElectronicMail">> >>}

\* the text found along path below children, null when there is none
TextAt(children, path) ==
    orNone(LastText(Under(children, SubSeq(path, 1, Len(path) - 1)), path[Len(path)]))

Sections ==
    {<<"AccountingSupplierParty", "supplier", "edi_supplier">>,
     <<"AccountingCustomerParty", "customer", "edi_customer">>}

\* C11: when a party section occurs more than once among the top-level
\* children, every field of its record in the output is the value the last
\* occurrence holds for it, null when the last occurrence has none: no value
\* of an earlier occurrence survives.
C11_LastPartyWins ==
    pc = "done" =>
        \A sec \in Sections :
            Len(ChildrenNamed(xml_root, sec[1])) > 1 =>
                \A p \in PartyPaths :
                    field(result.d[lit(sec[2])], sec[3] \o p[1])
                        = TextAt(LastChild(xml_root, sec[1]).children, <<"Party">> \o p[2])

\* C11 witness: a supplier block with a name, then one without a name and
\* with a telephone; the output has no supplier name, the second block's id
\* and its telephone.
C11_Witness ==
    /\ pc = "done"
    /\ ChildrenNamed(xml_root, "AccountingSupplierParty") = <<SupplierParty, SupplierParty2>>
    /\ field(result.d[lit("supplier")], "edi_supplier_name") = None
    /\ field(result.d[lit("supplier")], "edi_supplier_id") = Str(<<"6", "6">>)
    /\ field(result.d[lit("supplier")], "edi_supplier_telephone") = Str(<<"0", "1">>)

\* a line element of the variant v whose quantity lacks unitCode or whose
\* LineExtensionAmount lacks currencyID
MalformedLine(v, e) ==
    /\ LocalName(e) = LineTag(v)
    /\ \E j \in 1..Len(e.children) :
           LET c == e.children[j]
           IN  \/ LocalName(c) = QuantityTag(v) /\ "unitCode" \notin DOMAIN c.attrib
               \/ LocalName(c) = "LineExtensionAmount" /\ "currencyID" \notin DOMAIN c.attrib

MalformedAt(i) == MalformedLine(variant, xml_root[i])

\* the position of the first malformed line of the document
FirstMalformed ==
    CHOOSE i \in 1..Len(xml_root) :
        MalformedAt(i) /\ \A j \in 1..(i - 1) : ~MalformedAt(j)

\* C13: a line of the variant whose quantity element lacks unitCode, or whose
\* LineExtensionAmount lacks currencyID, makes the whole Run fail: the walk
\* never gets past that line, Run never returns a ParsedDocument, and when it
\* is over an error has been raised to the caller.
C13_MissingAttributeFailsRun ==
    (\E i \in 1..Len(xml_root) : MalformedAt(i)) =>
        /\ pc # "done"
        /\ pc = "walk" => idx <= FirstMalformed
        /\ pc = "failed" => IsRaise(result)

\* C13 witness: Run failed with KeyError at a line without unitCode that
\* follows a well-formed line, both party blocks being present.
C13_Witness ==
    /\ pc = "failed" /\ result = Raise("KeyError")
    /\ idx > 1 /\ idx <= Len(xml_root)
    /\ xml_root[idx] = LineOf(variant, <<"3">>, Absent, Str(<<"H", "R", "K">>))
    /\ xml_root[idx - 1] = LineOf(variant, <<"1">>, Str(<<"K", "O", "M">>), Str(<<"H", "R", "K">>))
    /\ HasChild(xml_root, "AccountingSupplierParty")
    /\ HasChild(xml_root, "AccountingCustomerParty")

OtherVariant(v) == IF v = "Invoice" THEN "CreditNote" ELSE "Invoice"

\* the document holds lines, all of them of the other variant
VariantMismatch ==
    /\ HasChild(xml_root, LineTag(OtherVariant(variant)))
    /\ ~HasChild(xml_root, LineTag(variant))

\* C14: variant mismatch is silent: Run on a document whose lines are those
\* of the other variant returns a ParsedDocument with an empty line sequence
\* and raises no error, whatever the lines contain.
C14_VariantMismatchSilent ==
    (Finished /\ VariantMismatch) =>
        /\ pc = "done"
        /\ field(result, "invoice_lines") = List(<<>>)

\* C15: the line sequence of the output has exactly one record per top-level
\* line element of the variant, in document order, whatever other sections
\* stand between the lines: the i-th record is that of the i-th line.
C15_LinesInDocumentOrder ==
    pc = "done" =>
        LET lines == ChildrenNamed(xml_root, LineTag(variant))
            out   == field(result, "invoice_lines").l
        IN  /\ Len(out) = Len(lines)
            /\ \A i \in 1..Len(lines) :
                   /\ field(out[i], "edi_line_id") = TextAt(lines[i].children, <<"ID">>)
                   /\ out[i] = flattened_invoice_line(parseInvoiceLine(variant, lines[i]))

\* C15 witness: line 2, a Note, then line 1, returned as the records of
\* line 2 and line 1 in that order.
C15_Witness ==
    /\ pc = "done" /\ Len(xml_root) = 5
    /\ LocalName(xml_root[3]) = LineTag(variant)
    /\ LocalName(xml_root[4]) = "Note"
    /\ LocalName(xml_root[5]) = LineTag(variant)
    /\ Len(field(result, "invoice_lines").l) = 2
    /\ field(field(result, "invoice_lines").l[1], "edi_line_id") = Str(<<"2">>)
    /\ field(field(result, "invoice_lines").l[2], "edi_line_id") = Str(<<"1">>)

\* the raw payment id of the section: the text of its PaymentID, null when
\* the section or the element is absent
RawPaymentId ==
    IF pm_elem = Absent THEN None ELSE TextAt(pm_elem.children, <<"PaymentID">>)

\* r is rest without its leading whitespace, the remainder kept as it is
LeadingWhitespaceRemoved(rest, r) ==
    \E k \in 0..Len(rest) :
        /\ \A i \in 1..k : rest[i] \in Whitespace
        /\ r = SubSeq(rest, k + 1, Len(rest))
        /\ r = <<>> \/ r[1] \notin Whitespace

\* C12: payment_id is the raw payment id; for a non-null payment id s,
\* payment_model is the first 4 characters of s (all of s when shorter) and
\* payment_reference the rest of s with its leading whitespace removed and
\* everything after it preserved; when PaymentMeans or its PaymentID is absent
\* all three are null.
C12_PaymentModelAndReference ==
    ppc = "projected" =>
        LET s == RawPaymentId
        IN  /\ field(payment_header, "payment_id") = s
            /\ s = None =>
                   /\ field(payment_header, "payment_model") = None
                   /\ field(payment_header, "payment_reference") = None
            /\ s # None =>
                   /\ field(payment_header, "payment_model").py = "str"
                   /\ field(payment_header, "payment_reference").py = "str"
                   /\ \A i \in 1..Len(s.s) :
                          i <= 4 => field(payment_header, "payment_model").s[i] = s.s[i]
                   /\ Len(field(payment_header, "payment_model").s)
                          = (IF Len(s.s) < 4 THEN Len(s.s) ELSE 4)
                   /\ LeadingWhitespaceRemoved(
                          SubSeq(s.s, 5, Len(s.s)),
                          field(payment_header, "payment_reference").s)

\* C12 witness: "HR02 3" projected as model "HR02" and reference "3".
C12_Witness ==
    /\ ppc = "projected"
    /\ RawPaymentId = Str(<<"H", "R", "0", "2", " ", "3">>)
    /\ field(payment_header, "payment_model") = Str(<<"H", "R", "0", "2">>)
    /\ field(payment_header, "payment_reference") = Str(<<"3">>)

\* the text of the embedded object under Attachment, Absent when the
\* Attachment or the embedded object is missing
EmbeddedText ==
    LastText(Under(doc_ref.children, <<"Attachment">>), "EmbeddedDocumentBinaryObject")

\* C16: parsePdfDocument never fails; the attachment is the base64 encoding
\* of the whitespace-stripped text of the EmbeddedDocumentBinaryObject under
\* Attachment, and null when the Attachment or the embedded object is missing
\* or has no text.
C16_Attachment ==
    dpc # "start" =>
        /\ dpc = "returned"
        /\ pdf_out = IF EmbeddedText \in {Absent, None} THEN None
                     ELSE Bytes(b64encode(encode(strip(EmbeddedText.s))))

\* C17: parsing is deterministic: the second run on a document, by a fresh
\* parser or by the parser of the first run, ends as the first did, with an
\* equal ParsedDocument (or the same error); in particular for every
\* well-formed Invoice document without duplicate party blocks.
C17_Deterministic ==
    (Finished /\ first # None) => result = first

\* C17 witness: the Invoice variant has returned a second time, for a
\* document with both party blocks and a line, the ParsedDocument of the
\* first run.
C17_Witness ==
    /\ pc = "done" /\ variant = "Invoice"
    /\ first # None /\ ~IsRaise(first) /\ result = first
    /\ HasChild(xml_root, "InvoiceLine")
    /\ Len(field(result, "invoice_lines").l) = 1

\* C18: parses run side by side on independent parser instances do not
\* interfere: under every interleaving of their steps each Run ends with the
\* ParsedDocument, or the error, it ends with when it runs alone.
C18_NoInterference ==
    \A i \in Parsers :
        parsers[i].pc \in {"done", "failed"} =>
            parsers[i].result = RunAlone(parsers[i].variant, parsers[i].xml_root)

\* C18 witness: instance 1 has returned the document of its one line while
\* instance 2, on another document, is in the middle of its walk with a
\* different accumulator.
C18_Witness ==
    /\ parsers[1].pc = "done"
    /\ Len(field(parsers[1].result, "invoice_lines").l) = 1
    /\ parsers[2].pc = "walk" /\ parsers[2].idx = 2
    /\ parsers[2].xml_root # parsers[1].xml_root
    /\ heap[parsers[2].sol_ref] # heap[parsers[1].sol_ref]

\* C19: EmaticaService authenticates lazily and at most once per token: a
\* get_* call sends an authentication request at its start exactly when no
\* JWT is stored, so none once a JWT is stored, and every resource request
\* of a get_* call carries the stored JWT as its Authorization header.
C19_LazyAuthentication ==
    /\ \A k \in 1..Len(stack) :
           stack[k].method # "authenticate" =>
               /\ stack[k].at = "authenticate" => ~truthy(auth_jwt)
               /\ (stack[k].at = "headers" /\ ~stack[k].authed) => truthy(auth_jwt)
    /\ (sent # None /\ sent.kind = "resource") =>
           /\ truthy(sent.stored)
           /\ sent.Authorization = sent.stored

\* the body is a token: a string that is not empty
IsToken(body) == body.py = "str" /\ body.s # <<>>

\* C20: authenticate either stores the JWT and the timestamp or raises:
\* whenever it returns normally the response held a token, auth_jwt is that
\* token and auth_ts the time of that request.
C20_StoresOrRaises ==
    (last_auth # None /\ last_auth.ended = "returned") =>
        /\ IsToken(last_auth.body)
        /\ auth_jwt = last_auth.body
        /\ auth_ts = last_auth.time

\* the call returned the list of one entry per task
Fetched == apc = "returned" /\ oib_lst # <<>>

\* C21: async_get_ucenici_oib returns responses and errors: for a non-empty
\* oib_lst the returned list has one entry per OIB, the entry of a failed
\* request being its error; for an empty oib_lst it returns an empty list,
\* having neither authenticated nor sent a request.
C21_ResponsesAndErrors ==
    /\ Fetched =>
           /\ Len(async_ret.l) = Len(oib_lst)
           /\ \A i \in 1..Len(oib_lst) : async_ret.l[i] = tasks[i].result
    /\ (oib_lst = <<>> /\ apc # "start") =>
           /\ async_ret = List(<<>>)
           /\ sent = None /\ last_auth = None /\ tasks = <<>>

RECURSIVE SuccessfulFrom(_)
\* the responses of the requests that did not fail, from the i-th OIB of
\* oib_lst on, in the order of oib_lst
SuccessfulFrom(i) ==
    IF i > Len(oib_lst) THEN <<>>
    ELSE (IF IsRaise(tasks[i].result) THEN <<>>
          ELSE <<response_json(url_of(oib_lst[i]))>>) \o SuccessfulFrom(i + 1)

\* C30: the list async_get_ucenici_oib returns does not depend on the order
\* in which the requests complete: the successful responses appear in the
\* order of their OIBs in oib_lst, and every request carries the one
\* authorization header built before the first task was created.
C30_OrderIndependent ==
    /\ Fetched => async_ret.l = SuccessfulFrom(1)
    /\ \A i \in 1..Len(tasks) :
           /\ tasks[i].headers = async_headers
           /\ tasks[i].headers.Authorization = auth_jwt

\* the second request completed before the first, both with a response, and
\* the call returned
C30_Witness ==
    /\ Fetched
    /\ Len(oib_lst) >= 2 /\ oib_lst[1] # oib_lst[2]
    /\ completed[1] = 2
    /\ ~IsRaise(tasks[1].result) /\ ~IsRaise(tasks[2].result)
    /\ async_ret.l[1] = response_json(url_of(oib_lst[1]))

\* str(status_id) is one of the configured document process statuses
Configured == py_str(update_args.status_id) \in doc_process_status

\* the status is "1" (REJECTED)
Rejected == py_str(update_args.status_id) = <<"1">>

\* reject_reason is empty
EmptyReason == update_args.reject_reason \in {None, Str(<<>>)}

\* the JSON value that stands for an argument
JsonOf(v) ==
    CASE v.py = "str" -> [json |-> "string", s |-> v.s]
      [] v.py = "int" -> [json |-> "number", n |-> v.n]
      [] OTHER        -> [json |-> "null"]

WalkerStep ==
    /\ xml_root' = xml_root
    /\ (pc = "constructed" /\ pc' # pc) => (pc' = "walk" /\ idx' = 1)
    /\ (pc = "walk" /\ pc' = "walk") =>
           (idx <= Len(xml_root) /\ idx' = idx + 1
            /\ sol' = Run_child(variant, sol, xml_root[idx]))
    /\ (pc = "walk" /\ pc' = "done") =>
           (idx = Len(xml_root) + 1 /\ idx' = idx
            /\ result' = _post_process_result_dict(variant, sol))
    /\ (pc = "walk" /\ pc' = "failed") =>
           /\ idx' = idx /\ IsRaise(result')
           /\ \/ idx = Len(xml_root) + 1
              \/ idx <= Len(xml_root) /\ result' = Run_child(variant, sol, xml_root[idx])
    /\ pc \in {"done", "failed"} => pc' = pc

\* what is left of Run: the entry, the children from the one the loop is at
\* on, and the projection
Measure ==
    CASE pc = "constructed" -> Len(xml_root) + 3
      [] pc = "walk"        -> Len(xml_root) + 2 - idx
      [] OTHER              -> 0

\* C23: the walker is a single pass that terminates: Run dispatches each
\* direct child of the root once, in document order, never goes back, and
\* comes to the projection of the accumulator right after the last child,
\* unless a handler fails first.  It terminates: a Run that has not ended is
\* at a step it can take (the entry, a child of the root, or the
\* projection), and every step leaves strictly less of a finite walk.
C23_SinglePassTerminates ==
    /\ [](~Finished =>
            \/ pc = "constructed"
            \/ pc = "walk" /\ idx \in 1..(Len(xml_root) + 1))
    /\ [](Measure \in 0..(Len(xml_root) + 3))
    /\ [][WalkerStep /\ Measure' < Measure]_vars

\* C23 witness: Run returned a document after a walk over four children.
C23_Witness ==
    /\ pc = "done"
    /\ Len(xml_root) = 4 /\ idx = 5

\* C24: a parse shares no mutable state with any other parse: when calls
\* parser(rootA) and parser(rootB) on the same parser instance interleave,
\* each call still returns the ParsedDocument of its own tree (or raises
\* what the parse of its own tree raises).
C24_CallsDoNotInterfere ==
    \A i \in Callers :
        callers[i].pc \in {"done", "failed"} =>
            callers[i].result = RunAlone(callers[i].variant, callers[i].xml_root)

\* C25: in the CreditNote variant the text of a line's CreditedQuantity is
\* written to invoiced_quantity, and the three tax fields of the line are
\* read from the Item's ClassifiedTaxCategory only: a TaxTotal nested in the
\* CreditNoteLine never contributes, so a field is null when the item has no
\* ClassifiedTaxCategory (or none with a text for that field).
C25_CreditLine ==
    (variant = "CreditNote" /\ lpc = "flat") =>
        /\ field(line_rec, "invoiced_quantity")
               = LastText(line_elem.children, "CreditedQuantity")
        /\ \A f \in TaxFields :
               field(line_rec, f[1]) =
                   IF ItemTax(line_elem, f[2]) \in {Absent, None, Str(<<>>)}
                   THEN None
                   ELSE ItemTax(line_elem, f[2])

\* C25 witness: a flattened credit line whose nested TaxTotal holds all three
\* tax values and whose Item has no ClassifiedTaxCategory: the fields are
\* null.
C25_Witness ==
    /\ variant = "CreditNote" /\ lpc = "flat"
    /\ ~HasPath(line_elem.children, <<"Item", "ClassifiedTaxCategory">>)
    /\ \A f \in TaxFields :
           /\ LineTax(line_elem, f[2]) \notin {Absent, None}
           /\ field(line_rec, f[1]) = None
    /\ field(line_rec, "invoiced_quantity") = Str(<<"5">>)

\* the children of the last top-level TaxTotal of the document
LastTaxTotal == LastChild(xml_root, "TaxTotal").children

\* C26: with several TaxSubtotal children in the top-level TaxTotal, or
\* several top-level TaxTotal elements, the last wins: the header's
\* tax_percent, tax_exemption_reason and taxable_amount come from the last
\* TaxSubtotal of the last TaxTotal only (null where it has none), and
\* tax_amount from the last TaxTotal; no value of an earlier block appears.
C26_LastTaxTotalWins ==
    (pc = "done" /\ HasChild(xml_root, "TaxTotal")) =>
        /\ field(header(result), "tax_amount")
               = orNone(LastText(LastTaxTotal, "TaxAmount"))
        /\ field(header(result), "taxable_amount")
               = orNone(LastText(Under(LastTaxTotal, <<"TaxSubtotal">>), "TaxableAmount"))
        /\ field(header(result), "tax_percent")
               = orNone(LastText(Under(LastTaxTotal, <<"TaxSubtotal", "TaxCategory">>),
                                 "Percent"))
        /\ field(header(result), "tax_exemption_reason")
               = orNone(LastText(Under(LastTaxTotal, <<"TaxSubtotal", "TaxCategory">>),
                                 "TaxExemptionReason"))

\* C26 witness: two TaxTotal elements, the first with a reason and an amount
\* the last does not have, the last with two subtotals: the header holds the
\* percent of the last subtotal and no reason.
C26_Witness ==
    /\ pc = "done"
    /\ Len(ChildrenNamed(xml_root, "TaxTotal")) = 2
    /\ Len(ChildrenNamed(LastTaxTotal, "TaxSubtotal")) = 2
    /\ field(header(result), "tax_percent") = Str(<<"2", "5">>)
    /\ field(header(result), "tax_exemption_reason") = None
    /\ field(header(result), "tax_amount") = Str(<<"2">>)
    /\ LastText(ChildrenNamed(xml_root, "TaxTotal")[1].children, "TaxAmount") = Str(<<"1">>)
    /\ LastText(Under(ChildrenNamed(xml_root, "TaxTotal")[1].children,
                      <<"TaxSubtotal", "TaxCategory">>), "TaxExemptionReason")
           = Str(<<"R", "1">>)

\* the AdditionalDocumentReference elements of the document, in order
References == ChildrenNamed(xml_root, "AdditionalDocumentReference")

\* the attachment of the parsed document
pdf_document == field(field(result, "pdf_document"), "pdf_document")

\* C27: with several top-level AdditionalDocumentReference elements the
\* attachment is decided by the last one alone: it is what that element
\* gives by itself, so null when the last reference has no embedded object,
\* even when an earlier reference carried a PDF.
C27_LastReferenceDecides ==
    (pc = "done" /\ References # <<>>) =>
        pdf_document = parsePdfDocument(References[Len(References)])

\* C27 witness: two references, the first with a PDF and the last with no
\* attachment: the attachment of the document is null.
C27_Witness ==
    /\ pc = "done"
    /\ Len(References) = 2
    /\ parsePdfDocument(References[1]).py = "bytes"
    /\ ~HasChild(References[2].children, "Attachment")
    /\ pdf_document = None

\* the document without its top-level UBLExtensions elements
WithoutExtensions(doc) == SelectSeq(doc, LAMBDA c : LocalName(c) # "UBLExtensions")

\* C28: a UBLExtensions block is skipped entirely: what Run gives for a
\* document (the ParsedDocument, or the exception) is what it gives for the
\* same document with every top-level UBLExtensions element removed, whatever
\* the blocks hold.
C28_ExtensionsSkipped ==
    Finished => result = RunAlone(variant, WithoutExtensions(xml_root))

\* C28 witness: a returned document with its own ID followed by an
\* extension block holding another ID, a line, a party block and a note: no
\* line, the ID and the supplier of the document itself.
C28_Witness ==
    /\ pc = "done"
    /\ Len(xml_root) = 4
    /\ xml_root[3] = cbc("ID", Str(<<"7">>))
    /\ LocalName(xml_root[4]) = "UBLExtensions"
    /\ HasChild(xml_root[4].children, LineTag(variant))
    /\ HasChild(xml_root[4].children, "AccountingSupplierParty")
    /\ LastText(xml_root[4].children, "ID") = Str(<<"9">>)
    /\ field(result, "invoice_lines") = List(<<>>)
    /\ field(header(result), "edi_supplier_invoice_id") = Str(<<"7">>)

\* the document with, in every trading-party section, only the Party
\* children kept
OnlyParty(doc) ==
    [j \in 1..Len(doc) |->
        IF LocalName(doc[j]) \in {"AccountingSupplierParty", "AccountingCustomerParty"}
        THEN [doc[j] EXCEPT !.children = ChildrenNamed(doc[j].children, "Party")]
        ELSE doc[j]]

\* C29: in a trading-party section only the Party wrapper is processed:
\* every field of the supplier and of the customer record of a returned
\* document is the text at its fixed path below the Party child of the
\* section (null when there is none), and the outcome of Run is the one of
\* the document whose sections hold their Party children only.
C29_OnlyPartyProcessed ==
    /\ pc = "done" =>
           \A sec \in Sections :
               LET last == LastChild(xml_root, sec[1])
               IN  Len(ChildrenNamed(last.children, "Party")) <= 1 =>
                       \A p \in PartyPaths :
                           field(result.d[lit(sec[2])], sec[3] \o p[1])
                               = TextAt(last.children, <<"Party">> \o p[2])
    /\ Finished => result = RunAlone(variant, OnlyParty(xml_root))

\* C29 witness: a supplier section with an EndpointID, then the full Party,
\* then a PartyName and a PartyTaxScheme outside it; the record holds the
\* values of the Party, the second of its two identifications included.
C29_Witness ==
    /\ pc = "done"
    /\ LocalName(xml_root[1]) = "AccountingSupplierParty"
    /\ Len(xml_root[1].children) = 3
    /\ xml_root[1].children[1] = cbc("EndpointID", Str(<<"9", "9">>))
    /\ xml_root[1].children[2] = FullParty
    /\ LocalName(xml_root[1].children[3]) \in {"PartyName", "PartyTaxScheme"}
    /\ field(result.d[lit("supplier")], "edi_supplier_id") = Str(<<"6", "5">>)
    /\ field(result.d[lit("supplier")], "edi_supplier_identificator") = Str(<<"I", "2">>)
    /\ field(result.d[lit("supplier")], "edi_supplier_name") = Str(<<"S", "U", "P">>)
    /\ field(result.d[lit("supplier")], "edi_supplier_country_code") = Str(<<"H", "R">>)
    /\ field(result.d[lit("supplier")], "edi_supplier_tax_scheme_code") = Str(<<"V", "A", "T">>)
    /\ field(result.d[lit("supplier")], "edi_supplier_email") = Str(<<"c", "@", "x">>)

====
